---- MODULE Spec2Model ----
(***************************************************************************)
(* Model of the mind-map tree engine of PyWebShell's mindmap_cli:          *)
(*   app/models.py         Node                                            *)
(*   app/mindmap.py        MindMap                                         *)
(*   app/commands_core.py  the action layer (add/delete/edit/move)         *)
(* The tree is an arena: `nodes` maps an id to the node's fields and all   *)
(* edges are ids.  Every action is one call of an action function; `pre`   *)
(* keeps the tree as it was when the call started and `last` the call's    *)
(* arguments and outcome, so that frame conditions are state predicates.   *)
(***************************************************************************)
EXTENDS Integers, Sequences, FiniteSets, TLC

\* ------------------------------------------------------------------ bounds
\* Size of the pool the generated ids (uuid4 in Node.__init__) are drawn from.
MaxIds == 4
\* Number of distinct node texts the callers pass in.
MaxTexts == 2
\* number of ids two maps made from one another draw from
MaxTwinIds == 3
\* messages of the client the server has not yet received
MaxInbox == 1
\* characters the dispatcher's stdin pipe holds before a write blocks
MaxPipe == 5

Ids == 1..MaxIds
Texts == 1..MaxTexts
\* Python's None for an id (parent_id of the root, root of an empty map).
None == 0
\* Result slot of an outcome that carries no text / no node.
NoText == 0

\* ------------------------------------------------------------- constants
\* MindMap.MAX_DEPTH
MAX_DEPTH == 2

\* CommandStatus
SUCCESS == "success"
ERROR == "error"
NOT_FOUND == "not_found"
ALREADY_EXISTS == "already_exists"
MAX_DEPTH_REACHED == "max_depth_reached"
INVALID_OPERATION == "invalid_operation"

CommandStatus ==
  {SUCCESS, ERROR, NOT_FOUND, ALREADY_EXISTS, MAX_DEPTH_REACHED, INVALID_OPERATION}

\* nodes, root: the MindMap a caller holds.  last, pre: the last call and the
\* map before it.  file: what is stored at the map's path; file_pre: what was
\* stored there before the last call.  has_map: whether the interactive
\* session holds a map (current_map is not None).
\* out_file: what is stored at the path of a text export.
\* alt_file: what is stored at a second path the session can turn to; at_alt:
\* whether the session's current_filepath is that second path.
\* moving: the move_node_action that is under way when its writes are taken one
\* at a time, and where it stands.
\* twin: the second MindMap object, once MindMap.from_dict(t.to_dict()) has made
\* it, and the ids of the nodes whose children_ids list it took over.
VARIABLES nodes, root, last, pre, file, file_pre, has_map, out_file, alt_file, at_alt,
          moving, twin, disp, conn
vars ==
  <<nodes, root, last, pre, file, file_pre, has_map, out_file, alt_file, at_alt,
    moving, twin, disp, conn>>

\* no second MindMap object has been made
NoTwin == [made |-> FALSE, map |-> [nodes |-> <<>>, root |-> 0], shared |-> {}]

\* no application process runs
NoChild == [pc |-> "none", argv |-> <<>>]

\* no dispatcher process has been started
NoDispatcher ==
  [pc |-> "none", line |-> <<>>, read |-> FALSE, eof |-> FALSE, spawned |-> FALSE,
   isfile |-> FALSE, child |-> NoChild]

\* no WebSocket connection has been accepted
NoConnection ==
  [io |-> "none", client |-> "none", inbox |-> <<>>, stdin_task |-> "none",
   stdout_task |-> "none", stderr_task |-> "none", pipe_in |-> <<>>,
   out |-> FALSE, err |-> FALSE, process |-> "none", ended |-> "none"]

\* no move is under way
Idle == [pc |-> "idle", node_id_to_move |-> 0, new_parent_id |-> 0, todo |-> <<>>]

\* ------------------------------------------------------------- list helpers
\* x in list
InList(x, s) == \E i \in 1..Len(s) : s[i] = x

\* list.remove(x): drops the first occurrence of x (x is known to be in s)
ListRemove(s, x) ==
  LET i == CHOOSE k \in 1..Len(s) : s[k] = x /\ \A j \in 1..(k-1) : s[j] # x
  IN  SubSeq(s, 1, i-1) \o SubSeq(s, i+1, Len(s))

\* number of occurrences of x in s
Count(s, x) == Cardinality({i \in 1..Len(s) : s[i] = x})

\* ------------------------------------------------------------------- Node
\* Node.__init__: a node has no children when it is constructed
Node(text, parent_id, depth) ==
  [text |-> text, parent_id |-> parent_id, children_ids |-> <<>>, depth |-> depth]

\* dict without one key
DictDel(d, k) == [x \in (DOMAIN d) \ {k} |-> d[x]]

\* dict with one key set
DictSet(d, k, v) == [x \in (DOMAIN d) \cup {k} |-> IF x = k THEN v ELSE d[x]]

EmptyDict == [x \in {} |-> 0]

\* A map value: the pair (nodes, root) the MindMap object holds.
Map(ns, r) == [nodes |-> ns, root |-> r]

\* MindMap.create_root on a fresh MindMap(): the tree NewMap hands out
NewMapTree(id, title) == Map(DictSet(EmptyDict, id, Node(title, None, 0)), id)

\* Faulty variant of create_root: the test of line 24 is missing
create_root_Overwrites(m, text, new_id) ==
  [map |-> Map(DictSet(m.nodes, new_id, Node(text, None, 0)), new_id),
   how |-> "node", node |-> new_id]

\* MindMap.create_root: raises ValueError when the map has a root, else makes
\* a depth-0 node, stores it under its id and makes it the root.  new_id
\* stands for the uuid4 the Node constructor draws.
create_root(m, text, new_id) ==
  IF m.root # None
  THEN [map |-> m, how |-> "ValueError", node |-> None]
  ELSE [map |-> Map(DictSet(m.nodes, new_id, Node(text, None, 0)), new_id),
        how |-> "node", node |-> new_id]

\* ---------------------------------------------------------------- MindMap
\* Faulty variant of MM_add_node: the ceiling test of lines 48-50 is missing
MM_add_node_NoCeiling(m, parent_id, text, new_id) ==
  IF parent_id \notin DOMAIN m.nodes
  THEN [map |-> m, node |-> None]
  ELSE LET n1 == DictSet(m.nodes, new_id,
                         Node(text, parent_id, m.nodes[parent_id].depth + 1))
           n2 == [n1 EXCEPT ![parent_id].children_ids = Append(@, new_id)]
       IN  [map |-> Map(n2, m.root), node |-> new_id]

\* Faulty variant of MM_add_node: the new id is put in front of the parent's children
MM_add_node_Front(m, parent_id, text, new_id) ==
  IF parent_id \notin DOMAIN m.nodes
  THEN [map |-> m, node |-> None]
  ELSE LET new_depth == m.nodes[parent_id].depth + 1 IN
       IF new_depth > MAX_DEPTH
       THEN [map |-> m, node |-> None]
       ELSE LET n1 == DictSet(m.nodes, new_id, Node(text, parent_id, new_depth))
                n2 == [n1 EXCEPT ![parent_id].children_ids = <<new_id>> \o @]
            IN  [map |-> Map(n2, m.root), node |-> new_id]

\* MindMap.add_node; returns the map and the new node's id (None on failure).
\* new_id stands for the uuid4 the Node constructor draws.
MM_add_node(m, parent_id, text, new_id) ==
  IF parent_id \notin DOMAIN m.nodes
  THEN [map |-> m, node |-> None]
  ELSE LET new_depth == m.nodes[parent_id].depth + 1 IN
       IF new_depth > MAX_DEPTH
       THEN [map |-> m, node |-> None]
       ELSE LET n1 == DictSet(m.nodes, new_id, Node(text, parent_id, new_depth))
                n2 == [n1 EXCEPT ![parent_id].children_ids = Append(@, new_id)]
            IN  [map |-> Map(n2, m.root), node |-> new_id]

\* Faulty variant of DeleteRootReset: self.root keeps naming the deleted root
DeleteRootReset_Keep(m, node_id) == m

\* delete_node, lines 62-63: deleting the root sets self.root to None
DeleteRootReset(m, node_id) ==
  IF node_id = m.root THEN Map(m.nodes, None) ELSE m

\* Faulty variant of DeleteDetach: the parent keeps the id of the deleted node
DeleteDetach_Skip(m, node_id, pid) == m

\* delete_node, lines 70-73: take node_id out of its parent's children list
\* (pid is the parent_id field of the node object being deleted)
DeleteDetach(m, node_id, pid) ==
  IF pid # None /\ pid \in DOMAIN m.nodes /\ InList(node_id, m.nodes[pid].children_ids)
  THEN Map([m.nodes EXCEPT ![pid].children_ids = ListRemove(@, node_id)], m.root)
  ELSE m

\* delete_node, lines 75-76: del self.nodes[node_id]
DeleteUnregister(m, node_id) ==
  IF node_id \in DOMAIN m.nodes THEN Map(DictDel(m.nodes, node_id), m.root) ELSE m

\* delete_node, lines 78-83: with the root gone, whatever is left is cleared
DeleteClearOrphans(m) ==
  IF m.root = None /\ DOMAIN m.nodes # {} THEN Map(EmptyDict, None) ELSE m

RECURSIVE MM_delete_node(_, _)
RECURSIVE MM_delete_children(_, _)

\* Faulty variant of MM_delete_children: the children are not deleted with their parent
MM_delete_children_Skip(m, kids) == m

\* the loop `for child_id in list(node_to_delete.children_ids)` of delete_node
MM_delete_children(m, kids) ==
  IF kids = <<>> THEN m
  ELSE MM_delete_children(MM_delete_node(m, Head(kids)), Tail(kids))

\* MindMap.delete_node; the boolean it returns is (node_id \in DOMAIN m.nodes)
MM_delete_node(m, node_id) ==
  IF node_id \notin DOMAIN m.nodes THEN m
  ELSE
    LET node_to_delete == m.nodes[node_id]
        m1 == DeleteRootReset(m, node_id)
        m2 == MM_delete_children(m1, node_to_delete.children_ids)
        m3 == DeleteDetach(m2, node_id, node_to_delete.parent_id)
        m4 == DeleteUnregister(m3, node_id)
    IN  DeleteClearOrphans(m4)

\* ------------------------------------------------------------ action layer
\* The outcome tuple (status, data, message) of an action together with the
\* map the call leaves behind; the message is not modelled.
Outcome(m, status, result) == [map |-> m, status |-> status, result |-> result]

\* Faulty variant of add_node_action: on a map without root a call without
\* parent id makes the new node the root
add_node_action_RootOnEmpty(m, text, parent_id_str, new_id) ==
  IF parent_id_str = None /\ m.root = None
  THEN Outcome(Map(DictSet(m.nodes, new_id, Node(text, None, 0)), new_id),
               SUCCESS, new_id)
  ELSE
    LET parent_id_to_use == IF parent_id_str = None THEN m.root ELSE parent_id_str IN
    IF parent_id_to_use \notin DOMAIN m.nodes
    THEN Outcome(m, NOT_FOUND, None)
    ELSE IF m.nodes[parent_id_to_use].depth >= MAX_DEPTH
    THEN Outcome(m, MAX_DEPTH_REACHED, None)
    ELSE LET r == MM_add_node(m, parent_id_to_use, text, new_id) IN
         IF r.node # None
         THEN Outcome(r.map, SUCCESS, r.node)
         ELSE Outcome(r.map, MAX_DEPTH_REACHED, None)

\* Faulty variant of add_node_action: a call without parent id is refused even
\* when the map has a root
add_node_action_NoDefault(m, text, parent_id_str, new_id) ==
  IF parent_id_str = None
  THEN Outcome(m, ERROR, None)
  ELSE IF parent_id_str \notin DOMAIN m.nodes
  THEN Outcome(m, NOT_FOUND, None)
  ELSE IF m.nodes[parent_id_str].depth >= MAX_DEPTH
  THEN Outcome(m, MAX_DEPTH_REACHED, None)
  ELSE LET r == MM_add_node(m, parent_id_str, text, new_id) IN
       IF r.node # None
       THEN Outcome(r.map, SUCCESS, r.node)
       ELSE Outcome(r.map, MAX_DEPTH_REACHED, None)

\* add_node_action; parent_id_str = None stands for "no parent given"
add_node_action(m, text, parent_id_str, new_id) ==
  IF parent_id_str = None /\ m.root = None
  THEN Outcome(m, ERROR, None)
  ELSE
    LET parent_id_to_use == IF parent_id_str = None THEN m.root ELSE parent_id_str IN
    IF parent_id_to_use \notin DOMAIN m.nodes
    THEN Outcome(m, NOT_FOUND, None)
    ELSE IF m.nodes[parent_id_to_use].depth >= MAX_DEPTH
    THEN Outcome(m, MAX_DEPTH_REACHED, None)
    ELSE LET r == MM_add_node(m, parent_id_to_use, text, new_id) IN
         IF r.node # None
         THEN Outcome(r.map, SUCCESS, r.node)
         ELSE Outcome(r.map, MAX_DEPTH_REACHED, None)

\* Faulty variant of delete_node_action: the lookup is not checked, so that an
\* unknown id ends in a KeyError instead of a status
delete_node_action_Raises(m, node_id, confirm_root_delete) ==
  IF node_id \notin DOMAIN m.nodes
  THEN Outcome(m, "KeyError", None)
  ELSE IF node_id = m.root /\ ~confirm_root_delete
  THEN Outcome(m, INVALID_OPERATION, None)
  ELSE Outcome(MM_delete_node(m, node_id), SUCCESS, None)

\* delete_node_action
delete_node_action(m, node_id, confirm_root_delete) ==
  IF node_id \notin DOMAIN m.nodes
  THEN Outcome(m, NOT_FOUND, None)
  ELSE IF node_id = m.root /\ ~confirm_root_delete
  THEN Outcome(m, INVALID_OPERATION, None)
  ELSE Outcome(MM_delete_node(m, node_id), SUCCESS, None)

\* Faulty variant of edit_node_action: the text returned is the one just written
edit_node_action_ReturnsNew(m, node_id, new_text) ==
  IF node_id \notin DOMAIN m.nodes
  THEN Outcome(m, NOT_FOUND, NoText)
  ELSE Outcome(Map([m.nodes EXCEPT ![node_id].text = new_text], m.root),
               SUCCESS, new_text)

\* edit_node_action; the result is the previous text
edit_node_action(m, node_id, new_text) ==
  IF node_id \notin DOMAIN m.nodes
  THEN Outcome(m, NOT_FOUND, NoText)
  ELSE Outcome(Map([m.nodes EXCEPT ![node_id].text = new_text], m.root),
               SUCCESS, m.nodes[node_id].text)

\* Faulty variant of CircularCheck: the walk up the parent links is missing
CircularCheck_Never(m, cur, node_id) == FALSE

RECURSIVE CircularCheck(_, _, _)
\* the `while current_check_node` loop of move_node_action: TRUE when the walk
\* from cur up the parent links meets node_id
CircularCheck(m, cur, node_id) ==
  IF cur = None THEN FALSE
  ELSE IF cur = node_id THEN TRUE
  ELSE LET p == m.nodes[cur].parent_id IN
       CircularCheck(m, IF p # None /\ p \in DOMAIN m.nodes THEN p ELSE None, node_id)

\* Faulty variant of Unvisited: the children of a scanned node are never enqueued
Unvisited_None(kids, visited) == <<>>

\* children of n not yet visited, in list order (the q.append loop)
RECURSIVE Unvisited(_, _)
Unvisited(kids, visited) ==
  IF kids = <<>> THEN <<>>
  ELSE IF Head(kids) \in visited THEN Unvisited(Tail(kids), visited)
  ELSE <<Head(kids)>> \o Unvisited(Tail(kids), visited)

RECURSIVE SubtreeScan_NoCeiling(_, _, _, _, _, _)
\* Faulty variant of SubtreeScan: the scan computes the new depths but never compares
\* them with MAX_DEPTH
SubtreeScan_NoCeiling(m, q, visited, temp, base, orig) ==
  IF q = <<>> THEN [ok |-> TRUE, temp |-> temp]
  ELSE
    LET curr_id == Head(q) IN
    IF curr_id \in visited
    THEN SubtreeScan_NoCeiling(m, Tail(q), visited, temp, base, orig)
    ELSE IF curr_id \notin DOMAIN m.nodes
    THEN SubtreeScan_NoCeiling(m, Tail(q), visited \cup {curr_id}, temp, base, orig)
    ELSE
      LET new_abs == base + (m.nodes[curr_id].depth - orig)
          vis1 == visited \cup {curr_id}
      IN  SubtreeScan_NoCeiling(
            m, Tail(q) \o Unvisited(m.nodes[curr_id].children_ids, vis1),
            vis1, DictSet(temp, curr_id, new_abs), base, orig)

RECURSIVE SubtreeScan(_, _, _, _, _, _)
\* the `while q` loop of get_max_depth_of_subtree_if_moved; temp is
\* temp_subtree_nodes_with_new_depths, ok is FALSE when the function returns None
SubtreeScan(m, q, visited, temp, base, orig) ==
  IF q = <<>> THEN [ok |-> TRUE, temp |-> temp]
  ELSE
    LET curr_id == Head(q) IN
    IF curr_id \in visited THEN SubtreeScan(m, Tail(q), visited, temp, base, orig)
    ELSE IF curr_id \notin DOMAIN m.nodes
    THEN SubtreeScan(m, Tail(q), visited \cup {curr_id}, temp, base, orig)
    ELSE
      LET new_abs == base + (m.nodes[curr_id].depth - orig)
          temp1 == DictSet(temp, curr_id, new_abs)
          vis1 == visited \cup {curr_id}
      IN  IF new_abs > MAX_DEPTH THEN [ok |-> FALSE, temp |-> temp1]
          ELSE SubtreeScan(m, Tail(q) \o Unvisited(m.nodes[curr_id].children_ids, vis1),
                           vis1, temp1, base, orig)

\* get_max_depth_of_subtree_if_moved
get_max_depth_of_subtree_if_moved(m, root_of_subtree_id, new_base_depth_for_root) ==
  IF root_of_subtree_id \notin DOMAIN m.nodes THEN [ok |-> FALSE, temp |-> EmptyDict]
  ELSE IF new_base_depth_for_root > MAX_DEPTH THEN [ok |-> FALSE, temp |-> EmptyDict]
  ELSE SubtreeScan(m, <<root_of_subtree_id>>, {}, EmptyDict,
                   new_base_depth_for_root, m.nodes[root_of_subtree_id].depth)

\* Faulty variant of MoveDetach: the old parent keeps the node in its children list
MoveDetach_Keep(ns, node_id) == ns

\* step 1 of the commit: remove the node from its old parent's children list
MoveDetach(ns, node_id) ==
  LET op == ns[node_id].parent_id IN
  IF op # None /\ op \in DOMAIN ns /\ InList(node_id, ns[op].children_ids)
  THEN [ns EXCEPT ![op].children_ids = ListRemove(@, node_id)]
  ELSE ns

\* Faulty variant of MoveAttach: the node is put in front of the new parent's children
MoveAttach_Front(ns, node_id, new_parent_id) ==
  LET n1 == [ns EXCEPT ![node_id].parent_id = new_parent_id] IN
  IF ~InList(node_id, n1[new_parent_id].children_ids)
  THEN [n1 EXCEPT ![new_parent_id].children_ids = <<node_id>> \o @]
  ELSE n1

\* step 2 of the commit: set parent_id and append to the new parent's list
MoveAttach(ns, node_id, new_parent_id) ==
  LET n1 == [ns EXCEPT ![node_id].parent_id = new_parent_id] IN
  IF ~InList(node_id, n1[new_parent_id].children_ids)
  THEN [n1 EXCEPT ![new_parent_id].children_ids = Append(@, node_id)]
  ELSE n1

\* Faulty variant of MoveDepths: the precomputed depths are never written back
MoveDepths_Skip(ns, temp) == ns

\* step 3 of the commit: apply the precomputed depths
MoveDepths(ns, temp) ==
  [x \in DOMAIN ns |-> IF x \in DOMAIN temp THEN [ns[x] EXCEPT !.depth = temp[x]]
                                          ELSE ns[x]]

\* Faulty variant of MoveValidate: the depth check runs right after the lookups,
\* ahead of the root, same-parent, self and cycle rejections
MoveValidate_DepthFirst(m, node_id_to_move, new_parent_id) ==
  IF node_id_to_move \notin DOMAIN m.nodes THEN [status |-> NOT_FOUND, temp |-> EmptyDict]
  ELSE IF new_parent_id \notin DOMAIN m.nodes THEN [status |-> NOT_FOUND, temp |-> EmptyDict]
  ELSE
    LET chk == get_max_depth_of_subtree_if_moved(
                 m, node_id_to_move, m.nodes[new_parent_id].depth + 1)
    IN  IF ~chk.ok THEN [status |-> MAX_DEPTH_REACHED, temp |-> chk.temp]
        ELSE IF node_id_to_move = m.root
        THEN [status |-> INVALID_OPERATION, temp |-> EmptyDict]
        ELSE IF new_parent_id = m.nodes[node_id_to_move].parent_id
        THEN [status |-> INVALID_OPERATION, temp |-> EmptyDict]
        ELSE IF new_parent_id = node_id_to_move
        THEN [status |-> INVALID_OPERATION, temp |-> EmptyDict]
        ELSE IF CircularCheck(m, new_parent_id, node_id_to_move)
        THEN [status |-> INVALID_OPERATION, temp |-> EmptyDict]
        ELSE [status |-> SUCCESS, temp |-> chk.temp]

\* Faulty variant of MoveValidate: a missing new parent is reported as an
\* invalid operation
MoveValidate_ParentInvalid(m, node_id_to_move, new_parent_id) ==
  IF node_id_to_move \notin DOMAIN m.nodes THEN [status |-> NOT_FOUND, temp |-> EmptyDict]
  ELSE IF new_parent_id \notin DOMAIN m.nodes
  THEN [status |-> INVALID_OPERATION, temp |-> EmptyDict]
  ELSE IF node_id_to_move = m.root THEN [status |-> INVALID_OPERATION, temp |-> EmptyDict]
  ELSE IF new_parent_id = m.nodes[node_id_to_move].parent_id
  THEN [status |-> INVALID_OPERATION, temp |-> EmptyDict]
  ELSE IF new_parent_id = node_id_to_move
  THEN [status |-> INVALID_OPERATION, temp |-> EmptyDict]
  ELSE IF CircularCheck(m, new_parent_id, node_id_to_move)
  THEN [status |-> INVALID_OPERATION, temp |-> EmptyDict]
  ELSE
    LET chk == get_max_depth_of_subtree_if_moved(
                 m, node_id_to_move, m.nodes[new_parent_id].depth + 1)
    IN  IF ~chk.ok THEN [status |-> MAX_DEPTH_REACHED, temp |-> chk.temp]
        ELSE [status |-> SUCCESS, temp |-> chk.temp]

\* move_node_action, lines 149-224: every check that precedes the first write.
\* Returns the status the checks decide and the depths computed for the subtree.
MoveValidate(m, node_id_to_move, new_parent_id) ==
  IF node_id_to_move \notin DOMAIN m.nodes THEN [status |-> NOT_FOUND, temp |-> EmptyDict]
  ELSE IF new_parent_id \notin DOMAIN m.nodes THEN [status |-> NOT_FOUND, temp |-> EmptyDict]
  ELSE IF node_id_to_move = m.root THEN [status |-> INVALID_OPERATION, temp |-> EmptyDict]
  ELSE IF new_parent_id = m.nodes[node_id_to_move].parent_id
  THEN [status |-> INVALID_OPERATION, temp |-> EmptyDict]
  ELSE IF new_parent_id = node_id_to_move
  THEN [status |-> INVALID_OPERATION, temp |-> EmptyDict]
  ELSE IF CircularCheck(m, new_parent_id, node_id_to_move)
  THEN [status |-> INVALID_OPERATION, temp |-> EmptyDict]
  ELSE
    LET chk == get_max_depth_of_subtree_if_moved(
                 m, node_id_to_move, m.nodes[new_parent_id].depth + 1)
    IN  IF ~chk.ok THEN [status |-> MAX_DEPTH_REACHED, temp |-> chk.temp]
        ELSE [status |-> SUCCESS, temp |-> chk.temp]

\* move_node_action, lines 226-239: the three writes of a move that passed
MoveCommit(m, node_id_to_move, new_parent_id, temp) ==
  Map(MoveDepths(MoveAttach(MoveDetach(m.nodes, node_id_to_move),
                            node_id_to_move, new_parent_id),
                 temp),
      m.root)

\* Faulty variant of move_node_action: the writes are done before the verdict of the
\* depth check is looked at
move_node_action_EarlyWrite(m, node_id_to_move, new_parent_id) ==
  LET v == MoveValidate(m, node_id_to_move, new_parent_id) IN
  IF v.status \in {SUCCESS, MAX_DEPTH_REACHED}
  THEN Outcome(MoveCommit(m, node_id_to_move, new_parent_id, v.temp), v.status, None)
  ELSE Outcome(m, v.status, None)

\* move_node_action
move_node_action(m, node_id_to_move, new_parent_id) ==
  LET v == MoveValidate(m, node_id_to_move, new_parent_id) IN
  IF v.status # SUCCESS THEN Outcome(m, v.status, None)
  ELSE Outcome(MoveCommit(m, node_id_to_move, new_parent_id, v.temp), SUCCESS, None)

\* ------------------------------------------------------- persistence codec
\* A JSON document as from_dict reads it: data.get("root_id") (None when the
\* key is absent or null) and data.get("nodes", {}), a dict of node records.
Doc(root_id, recs) == [root_id |-> root_id, nodes |-> recs]

\* the keys Node.to_dict writes
NodeKeys == {"id", "text", "parent_id", "children_ids", "depth"}

\* a node record: keys is the set of keys the record has; the value of a key
\* it lacks is never read
Rec(keys, id, text, parent_id, children_ids, depth) ==
  [keys |-> keys, id |-> id, text |-> text, parent_id |-> parent_id,
   children_ids |-> children_ids, depth |-> depth]

\* Node.to_dict
Node_to_dict(id, n) == Rec(NodeKeys, id, n.text, n.parent_id, n.children_ids, n.depth)

\* Faulty variant of MM_to_dict: a map without root is written with its nodes
\* and every other map with a null root_id
MM_to_dict_NoRoot(m) ==
  Doc(None, [k \in DOMAIN m.nodes |-> Node_to_dict(k, m.nodes[k])])

\* MindMap.to_dict
MM_to_dict(m) ==
  IF m.root = None THEN Doc(None, EmptyDict)
  ELSE Doc(m.root, [k \in DOMAIN m.nodes |-> Node_to_dict(k, m.nodes[k])])

\* Node.from_dict raises KeyError for a record without 'text' or 'id'
RecLacksKey(r) == "text" \notin r.keys \/ "id" \notin r.keys

\* Node.from_dict followed by `node.id = node_id`: the node stored under the
\* record's key, with the defaults of data.get for the optional fields
Node_from_dict(r) ==
  [text |-> r.text,
   parent_id |-> IF "parent_id" \in r.keys THEN r.parent_id ELSE None,
   children_ids |-> IF "children_ids" \in r.keys THEN r.children_ids ELSE <<>>,
   depth |-> IF "depth" \in r.keys THEN r.depth ELSE 0]

\* the texts of the ValueErrors from_dict raises, lower-cased as
\* load_map_action compares them, one word per element; ids and paths are
\* placeholders
ErrMissingKey ==
  <<"invalid", "node", "data", ":", "missing", "key", "<key>", "in", "node", "<id>">>
ErrRootNotFound ==
  <<"invalid", "map", "data", ":", "root", "node", "id", "<id>", "not", "found", ".">>
ErrNoRootId ==
  <<"invalid", "map", "data", ":", "nodes", "exist", "but", "no", "root_id",
    "specified", ".">>

\* Faulty variant of MM_from_dict: a root_id that names no record is ignored
MM_from_dict_RootUnchecked(d) ==
  IF d.root_id = None /\ DOMAIN d.nodes = {}
  THEN [ok |-> TRUE, map |-> Map(EmptyDict, None), err |-> <<>>]
  ELSE IF \E k \in DOMAIN d.nodes : RecLacksKey(d.nodes[k])
  THEN [ok |-> FALSE, map |-> Map(EmptyDict, None), err |-> ErrMissingKey]
  ELSE LET ns == [k \in DOMAIN d.nodes |-> Node_from_dict(d.nodes[k])] IN
       IF d.root_id # None
       THEN [ok |-> TRUE,
             map |-> Map(ns, IF d.root_id \in DOMAIN ns THEN d.root_id ELSE None),
             err |-> <<>>]
       ELSE [ok |-> FALSE, map |-> Map(EmptyDict, None), err |-> ErrNoRootId]

\* MindMap.from_dict: ok is FALSE when it raises ValueError, err is the text
MM_from_dict(d) ==
  IF d.root_id = None /\ DOMAIN d.nodes = {}
  THEN [ok |-> TRUE, map |-> Map(EmptyDict, None), err |-> <<>>]
  ELSE IF \E k \in DOMAIN d.nodes : RecLacksKey(d.nodes[k])
  THEN [ok |-> FALSE, map |-> Map(EmptyDict, None), err |-> ErrMissingKey]
  ELSE LET ns == [k \in DOMAIN d.nodes |-> Node_from_dict(d.nodes[k])] IN
       IF d.root_id # None
       THEN IF d.root_id \in DOMAIN ns
            THEN [ok |-> TRUE, map |-> Map(ns, d.root_id), err |-> <<>>]
            ELSE [ok |-> FALSE, map |-> Map(EmptyDict, None), err |-> ErrRootNotFound]
       ELSE [ok |-> FALSE, map |-> Map(EmptyDict, None), err |-> ErrNoRootId]

\* ------------------------------------------------------------------ storage
\* What is at the map's path: nothing, bytes json.load cannot decode, or a
\* JSON document.
NoFile == [kind |-> "absent", doc |-> Doc(None, EmptyDict)]
Garbage == [kind |-> "garbage", doc |-> Doc(None, EmptyDict)]
DocFile(d) == [kind |-> "doc", doc |-> d]
\* the path names a directory: it exists, and open() on it raises
\* IsADirectoryError, an IOError
Directory == [kind |-> "dir", doc |-> Doc(None, EmptyDict)]

\* save_map_to_file when the write succeeds: the file holds mindmap.to_dict()
save_map_to_file(m) == DocFile(MM_to_dict(m))

\* the messages of load_map_from_file, lower-cased, one word per element
MsgFileNotFound ==
  <<"info", ":", "file", "<path>", "not", "found", ".", "starting", "with", "an",
    "empty", "map", "or", "create", "new", ".">>
MsgLoaded == <<"mind", "map", "loaded", "successfully", "from", "<path>", ".">>
MsgJsonDecode ==
  <<"error", ":", "could", "not", "decode", "json", "from", "<path>", ".",
    "invalid", "format", "?", "<e>">>
MsgReadError ==
  <<"error", ":", "could", "not", "read", "file", "<path>", ".", "<e>">>
MsgInvalidFormat(e) ==
  <<"error", ":", "invalid", "map", "data", "format", "in", "<path>", ".">> \o e

\* load_map_from_file: the map (has |-> FALSE for None) and the message
load_map_from_file(f) ==
  IF f.kind = "absent"
  THEN [has |-> FALSE, map |-> Map(EmptyDict, None), msg |-> MsgFileNotFound]
  ELSE IF f.kind = "garbage"
  THEN [has |-> FALSE, map |-> Map(EmptyDict, None), msg |-> MsgJsonDecode]
  ELSE IF f.kind = "dir"
  THEN [has |-> FALSE, map |-> Map(EmptyDict, None), msg |-> MsgReadError]
  ELSE LET r == MM_from_dict(f.doc) IN
       IF r.ok THEN [has |-> TRUE, map |-> r.map, msg |-> MsgLoaded]
       ELSE [has |-> FALSE, map |-> Map(EmptyDict, None), msg |-> MsgInvalidFormat(r.err)]

\* "not found" in msg.lower()
ContainsNotFound(msg) ==
  \E i \in 1..(Len(msg) - 1) : msg[i] = "not" /\ msg[i + 1] = "found"

\* load_map_action: the status and the map (meaningful when SUCCESS)
load_map_action(f) ==
  LET r == load_map_from_file(f) IN
  IF r.has THEN Outcome(r.map, SUCCESS, None)
  ELSE IF ContainsNotFound(r.msg) THEN Outcome(r.map, NOT_FOUND, None)
  ELSE Outcome(r.map, ERROR, None)

\* _load_mindmap_for_command of the one-shot front end: "loaded" with the
\* stored map, "fresh" with a new empty MindMap(), or "exit" for sys.exit(1)
load_mindmap_for_command(f) ==
  LET r == load_map_from_file(f) IN
  IF ~r.has /\ ContainsNotFound(r.msg) THEN [how |-> "fresh", map |-> Map(EmptyDict, None)]
  ELSE IF ~r.has THEN [how |-> "exit", map |-> Map(EmptyDict, None)]
  ELSE [how |-> "loaded", map |-> r.map]

\* nothing has been written to the export path
NoExport == [written |-> FALSE, content |-> <<>>]

\* open(filepath, 'w') of save_map_to_file raises for a directory, and the
\* function then returns False
Writable(f) == f.kind # "dir"

\* Faulty variant of new_map_action: the test of line 20 ignores the file
new_map_action_Overwrites(title, f, force, new_id) ==
  LET m == create_root(Map(EmptyDict, None), title, new_id).map IN
  [status |-> SUCCESS, has |-> TRUE, map |-> m, file |-> save_map_to_file(m)]

\* new_map_action: the status, whether a map is returned and which, and what
\* the path holds afterwards.  f is what the path holds before.
new_map_action(title, f, force, new_id) ==
  IF f.kind # "absent" /\ ~force
  THEN [status |-> ALREADY_EXISTS, has |-> FALSE, map |-> Map(EmptyDict, None),
        file |-> f]
  ELSE LET m == create_root(Map(EmptyDict, None), title, new_id).map IN
       IF Writable(f)
       THEN [status |-> SUCCESS, has |-> TRUE, map |-> m, file |-> save_map_to_file(m)]
       ELSE [status |-> ERROR, has |-> TRUE, map |-> m, file |-> f]

\* ------------------------------------------------------------ state machine
Cur == Map(nodes, root)

\* the record of a call: which action, its arguments, and what it returned
Call(op, node_id, parent_id, text, confirm, status, result) ==
  [op |-> op, node_id |-> node_id, parent_id |-> parent_id, text |-> text,
   confirm |-> confirm, status |-> status, result |-> result]

\* The id drawn for the root.  uuid4 values are opaque and nothing in the
\* program compares them except for equality, so the first id of the pool
\* stands for it.
RootId == CHOOSE id \in Ids : \A other \in Ids : id <= other

\* the map as new_map_action creates it: MindMap() followed by create_root(title)
Init ==
  \E title \in Texts :
    /\ nodes = NewMapTree(RootId, title).nodes
    /\ root = RootId
    /\ pre = NewMapTree(RootId, title)
    /\ last = Call("new", None, None, title, FALSE, SUCCESS, None)
    /\ file = save_map_to_file(NewMapTree(RootId, title))
    /\ file_pre = NoFile
    /\ has_map = TRUE
    /\ out_file = NoExport
    /\ alt_file = NoFile
    /\ at_alt = FALSE
    /\ moving = Idle
    /\ twin = NoTwin
    /\ disp = NoDispatcher
    /\ conn = NoConnection

\* the ids uuid4 can still draw without repeating one that is in use
FreeIds == Ids \ DOMAIN nodes

\* leave the map as the outcome says and remember the call
Apply(out, call) ==
  /\ nodes' = out.map.nodes
  /\ root' = out.map.root
  /\ pre' = Cur
  /\ last' = call
  /\ file_pre' = file
  /\ UNCHANGED <<file, has_map, out_file, alt_file, at_alt, moving, twin, disp, conn>>

\* A Node, and with it a new id, is constructed only on the path that succeeds;
\* the status does not depend on the id, so it is decided first.
AddNode ==
  \E text \in Texts, parent_id_str \in Ids \cup {None} :
    \E try \in {add_node_action(Cur, text, parent_id_str, RootId)} :
      IF try.status # SUCCESS
      THEN Apply(try, Call("add", None, parent_id_str, text, FALSE, try.status, None))
      ELSE \E new_id \in FreeIds :
             \E out \in {add_node_action(Cur, text, parent_id_str, new_id)} :
               Apply(out, Call("add", None, parent_id_str, text, FALSE,
                               out.status, out.result))

DeleteNode ==
  \E node_id \in Ids, confirm_root_delete \in BOOLEAN :
    \E out \in {delete_node_action(Cur, node_id, confirm_root_delete)} :
      Apply(out, Call("delete", node_id, None, NoText, confirm_root_delete,
                      out.status, out.result))

EditNode ==
  \E node_id \in Ids, new_text \in Texts :
    \E out \in {edit_node_action(Cur, node_id, new_text)} :
      Apply(out, Call("edit", node_id, None, new_text, FALSE, out.status, out.result))

MoveNode ==
  \E node_id_to_move \in Ids, new_parent_id \in Ids :
    \E out \in {move_node_action(Cur, node_id_to_move, new_parent_id)} :
      Apply(out, Call("move", node_id_to_move, new_parent_id, NoText, FALSE,
                      out.status, out.result))

\* a direct call of the tree's own insert (MindMap.add_node), which the spec
\* lists in the tree's public contract as insert_child; the method returns the
\* node or None, recorded as "node" / "none"
InsertChild ==
  \E text \in Texts, parent_id \in Ids :
    \E try \in {MM_add_node(Cur, parent_id, text, RootId)} :
      IF try.node = None
      THEN Apply(try, Call("insert_child", None, parent_id, text, FALSE, "none", None))
      ELSE \E new_id \in FreeIds :
             \E r \in {MM_add_node(Cur, parent_id, text, new_id)} :
               Apply(r, Call("insert_child", None, parent_id, text, FALSE,
                             "node", r.node))

\* a direct call of MindMap.create_root on the map as it stands; the method
\* returns the node or raises, recorded as "node" / "ValueError"
CreateRoot ==
  \E text \in Texts :
    \E r \in {create_root(Cur, text, RootId)} :
      Apply(r, Call("create_root", None, None, text, FALSE, r.how, r.node))

\* the map is written out and read back: from_dict(to_dict(map))
RoundTrip ==
  \E d \in {MM_to_dict(Cur)} :
    \E r \in {MM_from_dict(d)} :
      /\ nodes' = (IF r.ok THEN r.map.nodes ELSE nodes)
      /\ root' = (IF r.ok THEN r.map.root ELSE root)
      /\ pre' = Cur
      /\ last' = Call("round_trip", None, None, NoText, FALSE,
                      IF r.ok THEN "returned" ELSE "ValueError", None)
      /\ file_pre' = file
      /\ UNCHANGED <<file, has_map, out_file, alt_file, at_alt, moving, twin, disp, conn>>

Next ==
  \/ AddNode \/ DeleteNode \/ EditNode \/ MoveNode
  \/ InsertChild \/ RoundTrip \/ CreateRoot

Spec == Init /\ [][Next]_vars

\* ------------------------------------------------- loading a stored file
\* A separate state machine for what a process does with the file it finds at
\* the map's path.  The file is written by other programs as well, so it
\* starts as any of StoredFiles.
MaxDocNodes == 2
MaxSessionNodes == 3
MaxStoredNodes == 4
DocIds == 1..MaxDocNodes

\* the records tried under the first key: any subset of the keys, any values
FullRecs ==
  {Rec(ks,
       IF "id" \in ks THEN i ELSE None,
       IF "text" \in ks THEN 1 ELSE NoText,
       IF "parent_id" \in ks THEN p ELSE None,
       IF "children_ids" \in ks THEN c ELSE <<>>,
       IF "depth" \in ks THEN d ELSE 0) :
     ks \in SUBSET NodeKeys, i \in DocIds, p \in {None} \cup DocIds,
     c \in {<<>>} \cup {<<a>> : a \in DocIds}, d \in 0..(MAX_DEPTH + 1)}

\* the records tried under a further key k: complete, a child of the first
\* node or parentless, childless or listing the first node, one level down or
\* below the ceiling
BasicRecs(k) ==
  {Rec(NodeKeys, k, 1, p, c, d) :
     p \in {None, 1}, c \in {<<>>, <<1>>}, d \in {1, MAX_DEPTH + 1}}

\* the node dicts over the keys 1..n
RecDicts(n) ==
  {f \in [1..n -> FullRecs \cup UNION {BasicRecs(k) : k \in 2..n}] :
     \A k \in 1..n : IF k = 1 THEN f[k] \in FullRecs ELSE f[k] \in BasicRecs(k)}

StoredDocs ==
  {Doc(r, f) : r \in {None} \cup DocIds,
               f \in UNION {RecDicts(n) : n \in 0..MaxDocNodes}}

StoredFiles == {NoFile, Garbage} \cup {DocFile(d) : d \in StoredDocs}

InitCodec ==
  /\ file \in StoredFiles
  /\ file_pre = file
  /\ nodes = EmptyDict
  /\ root = None
  /\ pre = Map(EmptyDict, None)
  /\ last = Call("file", None, None, NoText, FALSE, "none", None)
  /\ has_map = FALSE
  /\ out_file = NoExport
  /\ alt_file = NoFile
  /\ at_alt = FALSE
  /\ moving = Idle
  /\ twin = NoTwin
  /\ disp = NoDispatcher
  /\ conn = NoConnection

\* what a load leaves behind: the map the caller holds afterwards
Loaded(op, status, m) ==
  /\ nodes' = m.nodes
  /\ root' = m.root
  /\ pre' = Cur
  /\ last' = Call(op, None, None, NoText, FALSE, status, None)
  /\ file_pre' = file
  /\ UNCHANGED file

\* MindMap.from_dict on the parsed document
FromDict ==
  /\ file.kind = "doc"
  /\ \E r \in {MM_from_dict(file.doc)} :
       Loaded("from_dict", IF r.ok THEN "returned" ELSE "ValueError",
              IF r.ok THEN r.map ELSE Cur)
  /\ UNCHANGED <<has_map, out_file, alt_file, at_alt, moving, twin, disp, conn>>

\* handle_load of the one-shot front end: on NOT_FOUND it goes on with a new
\* empty MindMap(), on ERROR it exits
HandleLoad ==
  /\ \E out \in {load_map_action(file)} :
       Loaded("load", out.status,
              IF out.status = SUCCESS THEN out.map
              ELSE IF out.status = NOT_FOUND THEN Map(EmptyDict, None)
              ELSE Cur)
  /\ UNCHANGED <<has_map, out_file, alt_file, at_alt, moving, twin, disp, conn>>

\* _load_mindmap_for_command, the first step of every one-shot command
LoadForCommand ==
  /\ \E r \in {load_mindmap_for_command(file)} :
       Loaded("load_for_command", r.how, IF r.how = "exit" THEN Cur ELSE r.map)
  /\ UNCHANGED <<has_map, out_file, alt_file, at_alt, moving, twin, disp, conn>>

\* cmd_load of the interactive session
CmdLoad ==
  \E out \in {load_map_action(file)} :
    /\ Loaded("cmd_load", out.status,
              IF out.status = SUCCESS THEN out.map
              ELSE IF out.status = NOT_FOUND THEN Map(EmptyDict, None)
              ELSE Cur)
    /\ has_map' = (IF out.status = SUCCESS THEN TRUE
                   ELSE IF out.status = NOT_FOUND THEN FALSE
                   ELSE has_map)
    /\ UNCHANGED <<out_file, alt_file, at_alt, moving, twin, disp, conn>>

NextCodec == FromDict \/ HandleLoad \/ LoadForCommand \/ CmdLoad

SpecCodec == InitCodec /\ [][NextCodec]_vars

\* ------------------------------------------------------- the two front ends
\* The interactive session holds the map (nodes, root) and saves it to the
\* file after every successful change; a one-shot command loads the file,
\* changes the loaded map and saves it.  One map is worked on by one process
\* at a time: one-shot commands run when the session has ended (has_map is
\* FALSE and no map is held).

\* str.lower on the letters that occur in what the user types
LowerChar(c) ==
  CASE c = "Y" -> "y" [] c = "E" -> "e" [] c = "S" -> "s"
    [] c = "N" -> "n" [] c = "O" -> "o"
    [] c = "A" -> "a" [] c = "B" -> "b" [] c = "C" -> "c" [] c = "D" -> "d"
    [] c = "X" -> "x" [] c = "I" -> "i" [] c = "T" -> "t"
    [] c = "Q" -> "q" [] c = "U" -> "u"
    [] OTHER -> c
Lower(str) == [i \in DOMAIN str |-> LowerChar(str[i])]

\* what the user may type at the root-deletion prompt, letter by letter
Answers ==
  {<<"y", "e", "s">>, <<"Y", "E", "S">>, <<"Y", "e", "s">>, <<"n", "o">>,
   <<"N", "O">>, <<"y">>, <<>>}

\* Faulty variant of ConfirmInput: every non-empty answer confirms
ConfirmInput_NonEmpty(confirm_input) == confirm_input # <<>>

\* cmd_delete: confirm_input.lower() == 'yes'
ConfirmInput(confirm_input) == Lower(confirm_input) = <<"y", "e", "s">>

\* The id uuid4 draws for a node added to m.  As for RootId, ids are compared
\* for equality only, so the first unused id of the pool stands for it; the
\* set is empty when the pool is used up.
FreshId(m) ==
  {id \in Ids \ DOMAIN m.nodes : \A other \in Ids \ DOMAIN m.nodes : id <= other}

\* the session's map and the file after a front-end command
Front(m, f, call) ==
  /\ nodes' = m.nodes
  /\ root' = m.root
  /\ pre' = Cur
  /\ last' = call
  /\ file' = f
  /\ file_pre' = file
  /\ UNCHANGED <<has_map, out_file, alt_file, at_alt, moving, twin, disp, conn>>

\* the "exit" command of the session: the process ends with its map
CmdExit ==
  /\ has_map
  /\ has_map' = FALSE
  /\ at_alt' = FALSE
  /\ UNCHANGED <<out_file, alt_file, moving, twin, disp, conn>>
  /\ nodes' = EmptyDict
  /\ root' = None
  /\ pre' = Cur
  /\ last' = Call("exit", None, None, NoText, FALSE, "none", <<>>)
  /\ file_pre' = file
  /\ UNCHANGED file

\* _save_current_map_interactive after a successful change; current_filepath
\* is the path of file
Saved(out) == IF out.status = SUCCESS THEN save_map_to_file(out.map) ELSE file

\* cmd_add of the interactive session
CmdAdd ==
  \E text \in Texts, parent_id \in Ids \cup {None} :
    IF ~has_map
    THEN Front(Cur, file, Call("cmd_add", None, parent_id, text, FALSE, "no_map", None))
    ELSE \E try \in {add_node_action(Cur, text, parent_id, RootId)} :
           IF try.status # SUCCESS
           THEN Front(Cur, file,
                      Call("cmd_add", None, parent_id, text, FALSE, try.status, None))
           ELSE \E new_id \in FreshId(Cur) :
                  \E out \in {add_node_action(Cur, text, parent_id, new_id)} :
                    Front(out.map, Saved(out),
                          Call("cmd_add", None, parent_id, text, FALSE,
                               out.status, out.result))

\* cmd_delete of the interactive session; the prompt appears only for the
\* root, so the answer of any other delete is recorded as empty
CmdDelete ==
  \E node_id \in Ids :
    IF ~has_map
    THEN Front(Cur, file, Call("cmd_delete", node_id, None, NoText, FALSE, "no_map", <<>>))
    ELSE IF root # None /\ node_id = root
    THEN \E confirm_input \in Answers :
           IF ConfirmInput(confirm_input)
           THEN \E out \in {delete_node_action(Cur, node_id, TRUE)} :
                  Front(out.map, Saved(out),
                        Call("cmd_delete", node_id, None, NoText, TRUE,
                             out.status, confirm_input))
           ELSE Front(Cur, file,
                      Call("cmd_delete", node_id, None, NoText, FALSE,
                           "cancelled", confirm_input))
    ELSE \E out \in {delete_node_action(Cur, node_id, FALSE)} :
           Front(out.map, Saved(out),
                 Call("cmd_delete", node_id, None, NoText, FALSE, out.status, <<>>))

\* handle_delete of the one-shot front end; yes is the --yes flag.  The
\* session's map is not touched: the command works on the map it loads.
HandleDelete ==
  /\ ~has_map
  /\ \E node_id \in Ids, yes \in BOOLEAN :
    \E r \in {load_mindmap_for_command(file)} :
      IF r.how = "exit" \/ (r.map.root # None /\ node_id = r.map.root /\ ~yes)
      THEN Front(Cur, file, Call("handle_delete", node_id, None, NoText, yes, "exit", <<>>))
      ELSE \E out \in {delete_node_action(r.map, node_id,
                                          r.map.root # None /\ node_id = r.map.root)} :
             Front(Cur, IF out.status = SUCCESS THEN save_map_to_file(out.map) ELSE file,
                   Call("handle_delete", node_id, None, NoText, yes, out.status, <<>>))

\* handle_add of the one-shot front end
HandleAdd ==
  /\ ~has_map
  /\ \E text \in Texts, parent_id \in Ids \cup {None} :
    \E r \in {load_mindmap_for_command(file)} :
      IF r.how = "exit"
      THEN Front(Cur, file, Call("handle_add", None, parent_id, text, FALSE, "exit", <<>>))
      ELSE \E try \in {add_node_action(r.map, text, parent_id, RootId)} :
             IF try.status # SUCCESS
             THEN Front(Cur, file,
                        Call("handle_add", None, parent_id, text, FALSE, try.status, <<>>))
             ELSE \E new_id \in FreshId(r.map) :
                    \E out \in {add_node_action(r.map, text, parent_id, new_id)} :
                      Front(Cur, save_map_to_file(out.map),
                            Call("handle_add", None, parent_id, text, FALSE,
                                 out.status, <<>>))

\* delete_node_action called on the root of the map the session holds, with
\* the default confirm_root_delete=False and without saving
DeleteRootUnconfirmed ==
  /\ has_map /\ root # None
  /\ \E out \in {delete_node_action(Cur, root, FALSE)} :
       Apply(out, Call("delete", root, None, NoText, FALSE, out.status, out.result))

NextFront ==
  CmdAdd \/ CmdDelete \/ CmdExit \/ HandleAdd \/ HandleDelete \/ DeleteRootUnconfirmed

SpecFront == Init /\ [][NextFront]_vars

\* ------------------------------------------------------ search and export
\* The characters of the texts, so that search and export can look into them:
\* text t is two letters of the alphabet, of both cases.
Alphabet == <<"a", "B", "c", "D">>
TextOf(t) == <<Alphabet[((t - 1) % Len(Alphabet)) + 1], Alphabet[(t % Len(Alphabet)) + 1]>>

\* Python's `needle in hay` on strings
Contains(hay, needle) ==
  \E i \in 0..(Len(hay) - Len(needle)) : SubSeq(hay, i + 1, i + Len(needle)) = needle

\* self.nodes.values(): the ids of m in insertion order.  Where every new id
\* is larger than the ids in use (AddNodeNext), that is the ascending order.
RECURSIVE Values(_, _)
Values(m, from) ==
  IF from > MaxIds THEN <<>>
  ELSE (IF from \in DOMAIN m.nodes THEN <<from>> ELSE <<>>) \o Values(m, from + 1)

\* Faulty variant of find_nodes_by_text: the texts are compared as they are
find_nodes_by_text_CaseSensitive(m, search_text) ==
  LET hit(n) == Contains(TextOf(m.nodes[n].text), search_text)
  IN  SelectSeq(Values(m, 1), hit)

\* MindMap.find_nodes_by_text
find_nodes_by_text(m, search_text) ==
  LET search_lower == Lower(search_text)
      hit(n) == Contains(Lower(TextOf(m.nodes[n].text)), search_lower)
  IN  SelectSeq(Values(m, 1), hit)

\* the reversal path[::-1]
Reverse(s) == [i \in 1..Len(s) |-> s[Len(s) + 1 - i]]

\* get_node_path returned None
NoPath == [has |-> FALSE, path |-> <<>>]

\* the `while current` loop of get_node_path
RECURSIVE PathUp(_, _, _)
PathUp(m, current, path) ==
  LET path1 == Append(path, current)
      p == m.nodes[current].parent_id
  IN  IF p = None THEN [has |-> TRUE, path |-> Reverse(path1)]
      ELSE IF p \notin DOMAIN m.nodes THEN NoPath
      ELSE PathUp(m, p, path1)

\* MindMap.get_node_path: the nodes from the root down to node_id
get_node_path(m, node_id) ==
  IF node_id \notin DOMAIN m.nodes THEN NoPath ELSE PathUp(m, node_id, <<>>)

\* search_map_action: the result is the list of (node, path) pairs
search_map_action(m, search_text) ==
  LET found_nodes == find_nodes_by_text(m, search_text) IN
  Outcome(m, SUCCESS,
          [i \in 1..Len(found_nodes) |->
             [node |-> found_nodes[i], path |-> get_node_path(m, found_nodes[i])]])

\* the pieces an export line is put together from; the box-drawing characters
\* of the source (corner U+2514, tee U+251C, bar U+2502, dash U+2500) are
\* written with ASCII stand-ins
Corner == "+-- "
Tee == "|-- "
Blank == "    "
Bar == "|   "
RootMark == " [ROOT]"

\* export_map_action returned None as content
NoContent == [has |-> FALSE, lines |-> <<>>]

RECURSIVE generate_text_tree_recursive(_, _, _, _)
RECURSIVE RenderChildren(_, _, _, _)

\* Faulty variant of RenderChildren: the first child is taken for the last one
RenderChildren_FirstIsLast(m, kids, i, indent_str) ==
  IF i > Len(kids) THEN <<>>
  ELSE generate_text_tree_recursive(m, kids[i], indent_str, i = 1)
         \o RenderChildren(m, kids, i + 1, indent_str)

\* the `for i, child_id_val in enumerate(...)` loops of the export, from the
\* i-th child on
RenderChildren(m, kids, i, indent_str) ==
  IF i > Len(kids) THEN <<>>
  ELSE generate_text_tree_recursive(m, kids[i], indent_str, i = Len(kids))
         \o RenderChildren(m, kids, i + 1, indent_str)

\* generate_text_tree_recursive: the lines of the subtree of node_id; a line is
\* the sequence of its pieces
generate_text_tree_recursive(m, node_id, indent_str, is_last_child) ==
  IF node_id \notin DOMAIN m.nodes THEN <<>>
  ELSE LET connector == IF is_last_child THEN Corner ELSE Tee
           new_indent_str == indent_str \o <<IF is_last_child THEN Blank ELSE Bar>>
       IN  <<indent_str \o <<connector>> \o TextOf(m.nodes[node_id].text)>>
             \o RenderChildren(m, m.nodes[node_id].children_ids, 1, new_indent_str)

\* output_lines of export_map_action for a map with a root
ExportLines(m) ==
  <<TextOf(m.nodes[m.root].text) \o <<RootMark>>>>
    \o RenderChildren(m, m.nodes[m.root].children_ids, 1, <<>>)

\* Faulty variant of export_map_action: the content is returned also when it was
\* written to the file
export_map_action_AlwaysReturns(m, export_filepath) ==
  IF m.root = None
  THEN [status |-> SUCCESS, content |-> NoContent, out |-> NoExport]
  ELSE LET export_content == [has |-> TRUE, lines |-> ExportLines(m)] IN
       IF export_filepath # <<>>
       THEN [status |-> SUCCESS, content |-> export_content,
             out |-> [written |-> TRUE, content |-> export_content.lines]]
       ELSE [status |-> SUCCESS, content |-> export_content, out |-> NoExport]

\* export_map_action when the write succeeds: the status, the content returned
\* and what is written (out.written is FALSE when no file is opened).
\* export_filepath is a string; None and '' both count as no path and are <<>>.
export_map_action(m, export_filepath) ==
  IF m.root = None
  THEN [status |-> SUCCESS, content |-> NoContent, out |-> NoExport]
  ELSE LET export_content == [has |-> TRUE, lines |-> ExportLines(m)] IN
       IF export_filepath # <<>>
       THEN [status |-> SUCCESS, content |-> NoContent,
             out |-> [written |-> TRUE, content |-> export_content.lines]]
       ELSE [status |-> SUCCESS, content |-> export_content, out |-> NoExport]

\* ------------------------------------------- the actions with the queries
\* A run of all six actions on one map.  New ids are drawn in ascending order
\* so that the order of the nodes dict is the order of the ids, and a run ends
\* when an export has written its file.

\* the id uuid4 draws: the first id above all ids in use, none when the pool
\* is used up
NextId(m) ==
  {id \in Ids : /\ \A n \in DOMAIN m.nodes : n < id
                /\ \A other \in Ids : (\A n \in DOMAIN m.nodes : n < other) => id <= other}

\* the search texts tried
Queries == {<<>>, <<"b">>, <<"A">>, <<"b", "C">>, <<"x">>}

\* the export paths tried: none, and a file name
ExportPaths == {<<>>, <<"o", "u", "t">>}

Running == ~out_file.written

AddNodeNext ==
  /\ Running
  /\ \E text \in Texts, parent_id_str \in Ids \cup {None} :
       \E try \in {add_node_action(Cur, text, parent_id_str, RootId)} :
         IF try.status # SUCCESS
         THEN Apply(try, Call("add", None, parent_id_str, text, FALSE, try.status, None))
         ELSE \E new_id \in NextId(Cur) :
                \E out \in {add_node_action(Cur, text, parent_id_str, new_id)} :
                  Apply(out, Call("add", None, parent_id_str, text, FALSE,
                                  out.status, out.result))

DeleteNodeQ == Running /\ DeleteNode
EditNodeQ == Running /\ EditNode
MoveNodeQ == Running /\ MoveNode

SearchNodes ==
  /\ Running
  /\ \E search_text \in Queries :
       \E out \in {search_map_action(Cur, search_text)} :
         Apply(out, Call("search", None, None, search_text, FALSE,
                         out.status, out.result))

\* MindMap.get_node_path, recorded as "path" / "none"
PathToRoot ==
  /\ Running
  /\ \E node_id \in Ids :
       \E p \in {get_node_path(Cur, node_id)} :
         Apply(Outcome(Cur, "none", None),
               Call("path", node_id, None, NoText, FALSE,
                    IF p.has THEN "path" ELSE "none", p))

ExportText ==
  /\ Running
  /\ \E export_filepath \in ExportPaths :
       \E r \in {export_map_action(Cur, export_filepath)} :
         /\ out_file' = (IF r.out.written THEN r.out ELSE out_file)
         /\ pre' = Cur
         /\ last' = Call("export", None, None, export_filepath, FALSE,
                         r.status, r.content)
         /\ file_pre' = file
         /\ UNCHANGED <<nodes, root, file, has_map, alt_file, at_alt, moving, twin, disp, conn>>

NextQuery ==
  \/ AddNodeNext \/ DeleteNodeQ \/ EditNodeQ \/ MoveNodeQ
  \/ SearchNodes \/ PathToRoot \/ ExportText

SpecQuery == Init /\ [][NextQuery]_vars

\* ------------------------------------------- a session over two paths
\* The session can name two paths: the default one, whose content is file, and
\* another one, whose content is alt_file.
DefaultPath == "default"
OtherPath == "other"
Paths == {DefaultPath, OtherPath}

\* what a path holds
At(path) == IF path = OtherPath THEN alt_file ELSE file

\* current_filepath; a session that has no path yet falls back on the default
\* one in cmd_new and cmd_load
current_filepath == IF at_alt THEN OtherPath ELSE DefaultPath

\* a root-only document written by hand: the record has only the keys that
\* Node.from_dict requires
HandWritten == Doc(1, [k \in {1} |-> Rec({"id", "text"}, 1, 1, None, <<>>, 0)])

\* what the two paths may hold when the session starts
SessionFiles ==
  {NoFile, Garbage, Directory, DocFile(Doc(1, EmptyDict)), DocFile(HandWritten),
   save_map_to_file(NewMapTree(RootId, 1))}

\* the number of node records a path holds
StoredNodes(f) == IF f.kind = "doc" THEN Cardinality(DOMAIN f.doc.nodes) ELSE 0

\* a map at one path may grow while it has fewer than MaxSessionNodes nodes
\* and the two paths together hold fewer than MaxStoredNodes
Room(m, elsewhere) ==
  /\ Cardinality(DOMAIN m.nodes) < MaxSessionNodes
  /\ Cardinality(DOMAIN m.nodes) + StoredNodes(elsewhere) < MaxStoredNodes

\* interactive_session up to its prompt: the default path is loaded when it
\* exists, and a load that does not succeed leaves the session without map.
\* The default path is absent or holds a map the program wrote; the other
\* path holds any of SessionFiles.
InitSession ==
  \E f \in {NoFile, save_map_to_file(NewMapTree(RootId, 1))}, g \in SessionFiles :
    \E r \in {load_map_action(f)} :
      /\ nodes = (IF r.status = SUCCESS THEN r.map.nodes ELSE EmptyDict)
      /\ root = (IF r.status = SUCCESS THEN r.map.root ELSE None)
      /\ has_map = (r.status = SUCCESS)
      /\ pre = Map(EmptyDict, None)
      /\ last = Call("start", None, None, NoText, FALSE, r.status, None)
      /\ file = f
      /\ file_pre = f
      /\ alt_file = g
      /\ at_alt = FALSE
      /\ moving = Idle
      /\ twin = NoTwin
      /\ disp = NoDispatcher
      /\ conn = NoConnection
      /\ out_file = NoExport

\* a session command leaves the map m (held or not), the current path and
\* content at that path
Session(m, has, path, content, call) ==
  /\ nodes' = m.nodes
  /\ root' = m.root
  /\ has_map' = has
  /\ at_alt' = (path = OtherPath)
  /\ file' = (IF path = OtherPath THEN file ELSE content)
  /\ alt_file' = (IF path = OtherPath THEN content ELSE alt_file)
  /\ pre' = Cur
  /\ last' = call
  /\ file_pre' = file
  /\ UNCHANGED <<out_file, moving, twin, disp, conn>>

\* a session command that changes nothing
Stay(call) == Session(Cur, has_map, current_filepath, At(current_filepath), call)

\* Faulty variant of SavedAt: the session writes the map out whatever the status
SavedAt_Always(out) == save_map_to_file(out.map)

\* Faulty variant of SavedAt: the session never writes the map out
SavedAt_Never(out) == At(current_filepath)

\* _save_current_map_interactive after a successful change
SavedAt(out) ==
  IF out.status = SUCCESS /\ Writable(At(current_filepath))
  THEN save_map_to_file(out.map) ELSE At(current_filepath)

\* cmd_new: the target is the --file argument or else the current path; the
\* call records the target, whether new_map_action returned a map and which,
\* and what the target held: whether it existed and could be written, and,
\* when the call did not succeed, its content
CmdNew ==
  \E title \in Texts, target \in Paths, force \in BOOLEAN :
    \E out \in {new_map_action(title, At(target), force, RootId)} :
      \E call \in {Call("cmd_new", None, None, title, force, out.status,
                         [path |-> target, existed |-> At(target).kind # "absent",
                          writable |-> Writable(At(target)),
                          before |-> IF out.status = SUCCESS THEN NoFile
                                     ELSE At(target),
                          has |-> out.has, map |-> out.map])} :
        IF out.status = SUCCESS /\ out.has
        THEN Session(out.map, TRUE, target, out.file, call)
        ELSE IF target = current_filepath
        THEN Session(Cur, has_map, target, out.file, call)
        ELSE Session(Cur, has_map, current_filepath, At(current_filepath), call)

\* cmd_load: the target is the argument or else the current path
CmdLoadPath ==
  \E target \in Paths :
    \E out \in {load_map_action(At(target))} :
      \E call \in {Call("cmd_load", None, None, NoText, FALSE, out.status, target)} :
        IF out.status = SUCCESS
        THEN Session(out.map, TRUE, target, At(target), call)
        ELSE IF out.status = NOT_FOUND
        THEN Session(Map(EmptyDict, None), FALSE, target, At(target), call)
        ELSE Stay(call)

\* what is remembered of a session command that works on the map: the
\* command and the status of its action ("no_map" when the session has none)
Brief(op, status) == Call(op, None, None, NoText, FALSE, status, None)

\* the session leaves the map and the file as the outcome of an action says
Done(op, out) ==
  Session(out.map, TRUE, current_filepath, SavedAt(out), Brief(op, out.status))

\* cmd_add, while there is Room
CmdAddPath ==
  \E text \in Texts, parent_id \in Ids \cup {None} :
    IF ~has_map
    THEN Stay(Brief("cmd_add", "no_map"))
    ELSE /\ Room(Cur, IF at_alt THEN file ELSE alt_file)
         /\ \E try \in {add_node_action(Cur, text, parent_id, RootId)} :
              IF try.status # SUCCESS
              THEN Stay(Brief("cmd_add", try.status))
              ELSE \E new_id \in FreshId(Cur) :
                     Done("cmd_add", add_node_action(Cur, text, parent_id, new_id))

\* cmd_delete; the prompt appears only for the root
CmdDeletePath ==
  \E node_id \in Ids :
    IF ~has_map
    THEN Stay(Brief("cmd_delete", "no_map"))
    ELSE IF root # None /\ node_id = root
    THEN \E confirm_input \in {<<"Y", "e", "s">>, <<"n", "o">>} :
           IF ConfirmInput(confirm_input)
           THEN Done("cmd_delete", delete_node_action(Cur, node_id, TRUE))
           ELSE Stay(Brief("cmd_delete", "cancelled"))
    ELSE Done("cmd_delete", delete_node_action(Cur, node_id, FALSE))

\* cmd_edit
CmdEdit ==
  \E node_id \in Ids, new_text \in Texts :
    IF ~has_map
    THEN Stay(Brief("cmd_edit", "no_map"))
    ELSE Done("cmd_edit", edit_node_action(Cur, node_id, new_text))

\* cmd_move
CmdMove ==
  \E node_id \in Ids, new_parent_id \in Ids :
    IF ~has_map
    THEN Stay(Brief("cmd_move", "no_map"))
    ELSE Done("cmd_move", move_node_action(Cur, node_id, new_parent_id))

\* What the one-shot handlers have in common once the map is loaded and the
\* action has returned: the map is saved to the path after a SUCCESS, and any
\* other status ends the process with exit(1).  The process has its own map,
\* so the session's is not touched; the arguments are remembered when the
\* command succeeded.
OneShot(out, done, failed) ==
  IF out.status = SUCCESS
  THEN Front(Cur, IF Writable(file) THEN save_map_to_file(out.map) ELSE file, done)
  ELSE Front(Cur, file, failed)

\* handle_add on the default path, while no session holds a map; the parent
\* id given is remembered also when the command fails
HandleAddPath ==
  /\ ~has_map
  /\ \E text \in Texts, parent_id \in Ids \cup {None} :
       \E r \in {load_mindmap_for_command(file)} :
         IF r.how = "exit"
         THEN Front(Cur, file, Brief("handle_add", "exit"))
         ELSE /\ Room(r.map, alt_file)
              /\ \E try \in {add_node_action(r.map, text, parent_id, RootId)} :
                   IF try.status # SUCCESS
                   THEN Front(Cur, file,
                              Call("handle_add", None, parent_id, NoText, FALSE,
                                   try.status, None))
                   ELSE \E new_id \in FreshId(r.map) :
                          OneShot(add_node_action(r.map, text, parent_id, new_id),
                                  Call("handle_add", new_id, parent_id, text, FALSE,
                                       SUCCESS, None),
                                  Brief("handle_add", try.status))

\* handle_delete on the default path; yes is the --yes flag
HandleDeletePath ==
  /\ ~has_map
  /\ \E node_id \in Ids, yes \in BOOLEAN :
       \E r \in {load_mindmap_for_command(file)} :
         IF r.how = "exit" \/ (r.map.root # None /\ node_id = r.map.root /\ ~yes)
         THEN Front(Cur, file, Brief("handle_delete", "exit"))
         ELSE \E out \in {delete_node_action(r.map, node_id,
                                             r.map.root # None /\ node_id = r.map.root)} :
                OneShot(out,
                        Call("handle_delete", node_id, None, NoText, yes, SUCCESS, None),
                        Brief("handle_delete", out.status))

\* handle_edit on the default path
HandleEdit ==
  /\ ~has_map
  /\ \E node_id \in Ids, new_text \in Texts :
       \E r \in {load_mindmap_for_command(file)} :
         IF r.how = "exit"
         THEN Front(Cur, file, Brief("handle_edit", "exit"))
         ELSE \E out \in {edit_node_action(r.map, node_id, new_text)} :
                OneShot(out,
                        Call("handle_edit", node_id, None, new_text, FALSE, SUCCESS, None),
                        Brief("handle_edit", out.status))

\* handle_move on the default path
HandleMove ==
  /\ ~has_map
  /\ \E node_id \in Ids, new_parent_id \in Ids :
       \E r \in {load_mindmap_for_command(file)} :
         IF r.how = "exit"
         THEN Front(Cur, file, Brief("handle_move", "exit"))
         ELSE \E out \in {move_node_action(r.map, node_id, new_parent_id)} :
                OneShot(out,
                        Call("handle_move", node_id, new_parent_id, NoText, FALSE,
                             SUCCESS, None),
                        Brief("handle_move", out.status))

NextSession ==
  \/ CmdNew \/ CmdLoadPath \/ CmdAddPath \/ CmdDeletePath \/ CmdEdit \/ CmdMove
  \/ CmdExit
  \/ HandleAddPath \/ HandleDeletePath \/ HandleEdit \/ HandleMove

SpecSession == InitSession /\ [][NextSession]_vars

\* ------------------------------------------- a move, one write at a time
RECURSIVE ScanOrder(_, _, _)
\* the order in which the `while q` loop of get_max_depth_of_subtree_if_moved
\* visits the nodes, which is the order of the keys of
\* temp_subtree_nodes_with_new_depths
ScanOrder(m, q, visited) ==
  IF q = <<>> THEN <<>>
  ELSE LET curr_id == Head(q) IN
       IF curr_id \in visited THEN ScanOrder(m, Tail(q), visited)
       ELSE IF curr_id \notin DOMAIN m.nodes
       THEN ScanOrder(m, Tail(q), visited \cup {curr_id})
       ELSE <<curr_id>> \o
            ScanOrder(m, Tail(q) \o Unvisited(m.nodes[curr_id].children_ids,
                                              visited \cup {curr_id}),
                      visited \cup {curr_id})

RECURSIVE Items(_, _)
\* temp.items(): the (id, depth) pairs of temp in the order of its keys
Items(temp, order) ==
  IF order = <<>> THEN <<>>
  ELSE IF Head(order) \in DOMAIN temp
  THEN <<[id |-> Head(order), depth |-> temp[Head(order)]]>> \o Items(temp, Tail(order))
  ELSE Items(temp, Tail(order))

\* Faulty variant of PassedChecks: a move that failed the depth check goes on
\* to the writes
PassedChecks_DepthIgnored(status) == status \in {SUCCESS, MAX_DEPTH_REACHED}

\* lines 222-224: the writes are reached when no check has returned
PassedChecks(status) == status = SUCCESS

\* a step of the move under way: the map and the position change, the call
\* stays the one that MoveStart recorded
Step(ns, pc, todo) ==
  /\ nodes' = ns
  /\ moving' = [moving EXCEPT !.pc = pc, !.todo = todo]
  /\ UNCHANGED <<root, last, pre, file, file_pre, has_map, out_file, alt_file, at_alt,
               twin, disp, conn>>

\* move_node_action up to the first write: the lookups and every check.  A
\* check that fails returns at once; otherwise the call goes on to the writes.
MoveStart ==
  /\ moving = Idle
  /\ \E node_id_to_move \in Ids, new_parent_id \in Ids :
       \E v \in {MoveValidate(Cur, node_id_to_move, new_parent_id)} :
         IF ~PassedChecks(v.status)
         THEN Apply(Outcome(Cur, v.status, None),
                    Call("move", node_id_to_move, new_parent_id, NoText, FALSE,
                         v.status, None))
         ELSE /\ moving' = [pc |-> "detach", node_id_to_move |-> node_id_to_move,
                            new_parent_id |-> new_parent_id,
                            todo |-> Items(v.temp,
                                           ScanOrder(Cur, <<node_id_to_move>>, {}))]
              /\ pre' = Cur
              /\ last' = Call("move", node_id_to_move, new_parent_id, NoText, FALSE,
                              "running", None)
              /\ file_pre' = file
              /\ UNCHANGED <<nodes, root, file, has_map, out_file, alt_file, at_alt, twin, disp, conn>>

\* lines 228-231: old_parent.children_ids.remove(node_to_move.id)
MoveRemove ==
  /\ moving.pc = "detach"
  /\ Step(MoveDetach(nodes, moving.node_id_to_move), "set_parent", moving.todo)

\* line 233: node_to_move.parent_id = new_parent_node.id
MoveSetParent ==
  /\ moving.pc = "set_parent"
  /\ Step([nodes EXCEPT ![moving.node_id_to_move].parent_id = moving.new_parent_id],
          "append", moving.todo)

\* lines 234-235: new_parent_node.children_ids.append(node_to_move.id)
MoveAppend ==
  /\ moving.pc = "append"
  /\ Step(IF ~InList(moving.node_id_to_move,
                     nodes[moving.new_parent_id].children_ids)
          THEN [nodes EXCEPT ![moving.new_parent_id].children_ids =
                               Append(@, moving.node_id_to_move)]
          ELSE nodes,
          "depths", moving.todo)

\* lines 237-239, one turn of the loop: node.depth = new_depth_value
MoveSetDepth ==
  /\ moving.pc = "depths" /\ moving.todo # <<>>
  /\ LET item == Head(moving.todo) IN
     Step(IF item.id \in DOMAIN nodes
          THEN [nodes EXCEPT ![item.id].depth = item.depth] ELSE nodes,
          "depths", Tail(moving.todo))

\* line 241: return SUCCESS
MoveReturn ==
  /\ moving.pc = "depths" /\ moving.todo = <<>>
  /\ moving' = Idle
  /\ last' = [last EXCEPT !.status = SUCCESS]
  /\ UNCHANGED <<nodes, root, pre, file, file_pre, has_map, out_file, alt_file, at_alt,
               twin, disp, conn>>

\* the actions that build and cut the tree run between moves, not inside one:
\* the program is single-threaded
AddNodeBetween ==
  /\ moving = Idle
  /\ \E text \in Texts, parent_id_str \in Ids \cup {None} :
       \E try \in {add_node_action(Cur, text, parent_id_str, RootId)} :
         IF try.status # SUCCESS
         THEN Apply(try, Call("add", None, parent_id_str, text, FALSE, try.status, None))
         ELSE \E new_id \in FreshId(Cur) :
                \E out \in {add_node_action(Cur, text, parent_id_str, new_id)} :
                  Apply(out, Call("add", None, parent_id_str, text, FALSE,
                                  out.status, out.result))

DeleteNodeBetween == moving = Idle /\ DeleteNode

NextMove ==
  \/ AddNodeBetween \/ DeleteNodeBetween
  \/ MoveStart \/ MoveRemove \/ MoveSetParent \/ MoveAppend \/ MoveSetDepth
  \/ MoveReturn

SpecMove == Init /\ [][NextMove]_vars

\* ------------------------------------- two maps made by to_dict / from_dict
\* Node.to_dict puts the node's children_ids list itself into the dict (line
\* 20 of models.py) and Node.from_dict binds that same list to the new node
\* (line 33), so after u = MindMap.from_dict(t.to_dict()) the node n of t and
\* the node n of u hold one list object.  The lists are written in place
\* (append, remove) and never rebound, so the two nodes keep sharing it for as
\* long as both maps hold them.  The map kept in nodes and root is t, the one
\* in twin.map is u.
Sides == {"t", "u"}

\* the ids the two maps draw from
TwinIds == 1..MaxTwinIds

\* the map on a side and the one on the other side
SideMap(side) == IF side = "t" THEN Cur ELSE twin.map
OtherMap(side) == IF side = "t" THEN twin.map ELSE Cur

\* the list objects that x and y both hold, with their content
SharedLists(x, y) ==
  [n \in (twin.shared \cap DOMAIN x.nodes) \cap DOMAIN y.nodes |->
     x.nodes[n].children_ids]

\* the content of the list objects after m has been written: a list that a
\* node of m holds has that node's children, a list whose node was taken out
\* of m keeps the content it had then
Sync(m, lists) ==
  [n \in DOMAIN lists |->
     IF n \in DOMAIN m.nodes THEN m.nodes[n].children_ids ELSE lists[n]]

RECURSIVE MM_delete_node_lists(_, _)
RECURSIVE MM_delete_children_lists(_, _)

\* the loop over the children of delete_node, with the list objects; an
\* exception ends the loop
MM_delete_children_lists(s, kids) ==
  IF kids = <<>> \/ s.raised THEN s
  ELSE MM_delete_children_lists(MM_delete_node_lists(s, Head(kids)), Tail(kids))

\* MindMap.delete_node together with what it does to the list objects: the
\* remove of lines 70-73 is a write to the parent's list, the del of line 76
\* and the clear of line 83 drop nodes but write no list.  stack holds the
\* nodes whose delete_node call has not returned.  A call for a node of the
\* stack finds the map as the first call for that node found it, apart from
\* root, so the calls repeat without end and Python raises RecursionError,
\* which no frame catches: raised, and no further write.
MM_delete_node_lists(s, node_id) ==
  IF s.raised \/ node_id \notin DOMAIN s.map.nodes THEN s
  ELSE IF node_id \in s.stack THEN [s EXCEPT !.raised = TRUE]
  ELSE
    LET node_to_delete == s.map.nodes[node_id]
        m1 == DeleteRootReset(s.map, node_id)
        s2 == MM_delete_children_lists(
                [s EXCEPT !.map = m1, !.stack = @ \cup {node_id}],
                node_to_delete.children_ids)
        m3 == DeleteDetach(s2.map, node_id, node_to_delete.parent_id)
        m4 == DeleteUnregister(m3, node_id)
    IN  IF s2.raised THEN s2
        ELSE [map |-> DeleteClearOrphans(m4), lists |-> Sync(m3, s2.lists),
              stack |-> s.stack, raised |-> FALSE]

\* delete_node_action on a map whose lists another map may hold as well: the
\* status ("RecursionError" when delete_node raises), the map and the lists
delete_node_action_lists(m, lists, node_id, confirm_root_delete) ==
  IF node_id \notin DOMAIN m.nodes
  THEN [status |-> NOT_FOUND, map |-> m, lists |-> lists]
  ELSE IF node_id = m.root /\ ~confirm_root_delete
  THEN [status |-> INVALID_OPERATION, map |-> m, lists |-> lists]
  ELSE LET r == MM_delete_node_lists(
                  [map |-> m, lists |-> lists, stack |-> {}, raised |-> FALSE],
                  node_id)
       IN  [status |-> IF r.raised THEN "RecursionError" ELSE SUCCESS,
            map |-> r.map, lists |-> r.lists]

\* a map whose nodes see the list objects as they now are
Seen(y, lists) ==
  Map([n \in DOMAIN y.nodes |->
         IF n \in DOMAIN lists THEN [y.nodes[n] EXCEPT !.children_ids = lists[n]]
         ELSE y.nodes[n]],
      y.root)

\* an action has left the map x on one side; the other side sees the lists
TwinStep(side, x, lists, call) ==
  /\ nodes' = (IF side = "t" THEN x.nodes ELSE Seen(Cur, lists).nodes)
  /\ root' = (IF side = "t" THEN x.root ELSE root)
  /\ twin' = [twin EXCEPT !.map = IF side = "t" THEN Seen(twin.map, lists) ELSE x]
  /\ pre' = Cur
  /\ last' = call
  /\ file_pre' = file
  /\ UNCHANGED <<file, has_map, out_file, alt_file, at_alt, moving, disp, conn>>

\* the id uuid4 draws is in use in neither map
TwinFreshId ==
  LET unused == (TwinIds \ DOMAIN nodes) \ (DOMAIN twin.map.nodes \cup twin.shared) IN
  {id \in unused : \A other \in unused : id <= other}

\* the map t is built before the second one is made
AddNodeAlone ==
  /\ ~twin.made
  /\ DOMAIN nodes # TwinIds
  /\ \E parent_id_str \in TwinIds \cup {None} :
       \E try \in {add_node_action(Cur, 1, parent_id_str, RootId)} :
         IF try.status # SUCCESS
         THEN Apply(try, Call("add", None, parent_id_str, 1, FALSE, try.status, None))
         ELSE \E new_id \in FreshId(Cur) :
                \E out \in {add_node_action(Cur, 1, parent_id_str, new_id)} :
                  Apply(out, Call("add", None, parent_id_str, 1, FALSE,
                                  out.status, out.result))

\* u = MindMap.from_dict(t.to_dict()); a map without root is written without
\* nodes, so nothing of it is taken over
MakeTwin ==
  /\ ~twin.made
  /\ \E r \in {MM_from_dict(MM_to_dict(Cur))} :
       /\ r.ok
       /\ twin' = [made |-> TRUE, map |-> r.map,
                   shared |-> IF root = None THEN {} ELSE DOMAIN nodes]
       /\ pre' = Cur
       /\ last' = Call("from_dict", None, None, NoText, FALSE, "returned", None)
       /\ file_pre' = file
       /\ UNCHANGED <<nodes, root, file, has_map, out_file, alt_file, at_alt, moving, disp, conn>>

\* add_node_action on one of the two maps
TwinAdd ==
  /\ twin.made
  /\ \E side \in Sides, parent_id_str \in TwinIds \cup {None} :
       \E x \in {SideMap(side)}, y \in {OtherMap(side)} :
         \E try \in {add_node_action(x, 1, parent_id_str, RootId)} :
           IF try.status # SUCCESS
           THEN TwinStep(side, x, SharedLists(x, y),
                         Call("add", None, parent_id_str, 1, FALSE, try.status, side))
           ELSE \E new_id \in TwinFreshId :
                  \E out \in {add_node_action(x, 1, parent_id_str, new_id)} :
                    TwinStep(side, out.map, Sync(out.map, SharedLists(x, y)),
                             Call("add", new_id, parent_id_str, 1, FALSE,
                                  out.status, side))

\* delete_node_action on one of the two maps
TwinDelete ==
  /\ twin.made
  /\ \E side \in Sides, node_id \in TwinIds, confirm_root_delete \in BOOLEAN :
       \E x \in {SideMap(side)}, y \in {OtherMap(side)} :
         \E out \in {delete_node_action_lists(x, SharedLists(x, y), node_id,
                                              confirm_root_delete)} :
           TwinStep(side, out.map, out.lists,
                    Call("delete", node_id, None, NoText, confirm_root_delete,
                         out.status, side))

\* move_node_action on one of the two maps
TwinMove ==
  /\ twin.made
  /\ \E side \in Sides, node_id_to_move \in TwinIds, new_parent_id \in TwinIds :
       \E x \in {SideMap(side)}, y \in {OtherMap(side)} :
         \E out \in {move_node_action(x, node_id_to_move, new_parent_id)} :
           TwinStep(side, out.map, Sync(out.map, SharedLists(x, y)),
                    Call("move", node_id_to_move, new_parent_id, NoText, FALSE,
                         out.status, side))

NextTwin == AddNodeAlone \/ MakeTwin \/ TwinAdd \/ TwinDelete \/ TwinMove

SpecTwin == Init /\ [][NextTwin]_vars

\* ------------------------------------- the loops and recursions, on any links
\* The walks of get_node_path and move_node_action and the recursions of
\* delete_node and of the export follow the parent_id and children_ids a
\* loaded file gave the nodes; from_dict checks none of them.

\* complete node records under key k with any parent_id and any children_ids
LinkedRecs(k) ==
  {Rec(NodeKeys, k, 1, p, c, IF k = 1 THEN 0 ELSE 1) :
     p \in {None} \cup DocIds, c \in {<<>>} \cup {<<a>> : a \in DocIds}}

\* the documents of such records
LinkedDocs ==
  {Doc(r, f) : r \in DocIds,
               f \in UNION {{g \in [1..n -> UNION {LinkedRecs(k) : k \in 1..n}] :
                               \A k \in 1..n : g[k] \in LinkedRecs(k)} :
                             n \in 1..MaxDocNodes}}

\* the path holds a file another program has written; no map is loaded yet
InitWalk ==
  /\ file \in {DocFile(d) : d \in LinkedDocs}
  /\ file_pre = file
  /\ nodes = EmptyDict
  /\ root = None
  /\ pre = Map(EmptyDict, None)
  /\ last = Call("file", None, None, NoText, FALSE, "none", None)
  /\ has_map = FALSE
  /\ out_file = NoExport
  /\ alt_file = NoFile
  /\ at_alt = FALSE
  /\ moving = Idle
  /\ twin = NoTwin
  /\ disp = NoDispatcher
  /\ conn = NoConnection

\* a loop in progress: which one, the node it was called for, and the node
\* its variable (current, current_check_node) is bound to
Walk(pc, node_id, current) == [pc |-> pc, node_id |-> node_id, current |-> current]

\* a command loads the file when no loop is running
WalkLoad == moving = Idle /\ LoadForCommand

\* a loop starts, goes on or ends; the map stays as it is
WalkTo(w, call) ==
  /\ moving' = w
  /\ last' = call
  /\ UNCHANGED <<nodes, root, pre, file, file_pre, has_map, out_file, alt_file,
                 at_alt, twin, disp, conn>>

\* search_map_action calls get_node_path for a node it found: lines 92-95,
\* up to the first test of `while current`
PathStart ==
  /\ moving = Idle
  /\ \E node_id \in DOMAIN nodes :
       WalkTo(Walk("get_node_path", node_id, node_id),
              Call("get_node_path", node_id, None, NoText, FALSE, "running", None))

\* one turn of the `while current` loop of get_node_path (lines 96-100); the
\* list path takes no part in what the loop does next, so a turn that binds
\* current to the node it already was leaves the state as it is
PathStep ==
  /\ moving.pc = "get_node_path"
  /\ LET parent_id == nodes[moving.current].parent_id IN
     IF parent_id = None
     THEN WalkTo(Idle, [last EXCEPT !.status = "returned"])
     ELSE IF parent_id \notin DOMAIN nodes
     THEN WalkTo(Idle, [last EXCEPT !.status = "None"])
     ELSE WalkTo([moving EXCEPT !.current = parent_id], last)

\* the tests of move_node_action before its circular dependency check
MoveChecked(m, node_id_to_move, new_parent_id) ==
  /\ node_id_to_move \in DOMAIN m.nodes
  /\ new_parent_id \in DOMAIN m.nodes
  /\ node_id_to_move # m.root
  /\ new_parent_id # m.nodes[node_id_to_move].parent_id
  /\ new_parent_id # node_id_to_move

\* move_node_action up to the first test of `while current_check_node`
CheckStart ==
  /\ moving = Idle
  /\ \E node_id_to_move \in DOMAIN nodes, new_parent_id \in DOMAIN nodes :
       /\ MoveChecked(Cur, node_id_to_move, new_parent_id)
       /\ WalkTo(Walk("circular_check", node_id_to_move, new_parent_id),
                 Call("move", node_id_to_move, new_parent_id, NoText, FALSE,
                      "running", None))

\* one turn of the `while current_check_node` loop (lines 160-164); when the
\* loop ends without a hit, the rest of move_node_action runs
CheckStep ==
  /\ moving.pc = "circular_check"
  /\ LET parent_id == nodes[moving.current].parent_id IN
     IF moving.current = moving.node_id
     THEN WalkTo(Idle, [last EXCEPT !.status = INVALID_OPERATION])
     ELSE IF parent_id # None /\ parent_id \in DOMAIN nodes
     THEN WalkTo([moving EXCEPT !.current = parent_id], last)
     ELSE \E out \in {move_node_action(Cur, moving.node_id, last.parent_id)} :
            /\ nodes' = out.map.nodes
            /\ root' = out.map.root
            /\ pre' = Cur
            /\ last' = [last EXCEPT !.status = out.status]
            /\ moving' = Idle
            /\ file_pre' = file
            /\ UNCHANGED <<file, has_map, out_file, alt_file, at_alt, twin, disp, conn>>

\* delete_node_action on the loaded map: no list is held by another map
DeleteLinked ==
  /\ moving = Idle
  /\ \E node_id \in DocIds, confirm_root_delete \in BOOLEAN :
       \E out \in {delete_node_action_lists(Cur, EmptyDict, node_id,
                                            confirm_root_delete)} :
         Apply(out, Call("delete", node_id, None, NoText, confirm_root_delete,
                         out.status, None))

RECURSIVE RenderRaises(_, _, _)
\* generate_text_tree_recursive never returns: stack holds the nodes whose
\* call has not returned, and a call for one of them repeats what the first
\* call for it did, until Python raises RecursionError
RenderRaises(m, node_id, stack) ==
  IF node_id \notin DOMAIN m.nodes THEN FALSE
  ELSE IF node_id \in stack THEN TRUE
  ELSE \E i \in DOMAIN m.nodes[node_id].children_ids :
         RenderRaises(m, m.nodes[node_id].children_ids[i], stack \cup {node_id})

\* export_map_action to the terminal: it raises, or it returns what the
\* rendering gives
ExportLinked ==
  /\ moving = Idle
  /\ LET raises == /\ root # None
                   /\ \E i \in DOMAIN nodes[root].children_ids :
                        RenderRaises(Cur, nodes[root].children_ids[i], {})
     IN  WalkTo(Idle,
                Brief("export", IF raises THEN "RecursionError"
                                ELSE export_map_action(Cur, <<>>).status))

NextWalk == WalkLoad \/ PathStart \/ PathStep \/ CheckStart \/ CheckStep
              \/ DeleteLinked \/ ExportLinked

\* asyncio and threads play no part: the interpreter runs the loop it is in
SpecWalk ==
  InitWalk /\ [][NextWalk]_vars /\ WF_vars(PathStep) /\ WF_vars(CheckStep)

\* ------------------------------------------- the web terminal dispatcher
\* web_terminal_dispatcher.py reads lines, and starts main.py as a child for
\* the lines it allows; main.py chooses between the session and the one-shot
\* front end.  A line is the sequence of its characters.

\* the one key of ALLOWED_COMMANDS, "python app/mindmap.py"
MindmapCommand ==
  <<"p", "y", "t", "h", "o", "n", " ", "a", "p", "p", "/", "m", "i", "n", "d", "m", "a", "p", ".", "p", "y">>

\* ALLOWED_COMMANDS: the arguments main.py is started with (the script path
\* is the same for every key)
ALLOWED_COMMANDS ==
  [k \in {MindmapCommand} |-> <<"--interactive-for-websocket">>]

\* list(ALLOWED_COMMANDS.keys())
ordered_command_keys == <<MindmapCommand>>

\* the characters str.strip takes away and int() skips
IsSpace(c) == c \in {" ", "\t"}

\* str.strip: from the first to the last character that is not white space
str_strip(s) ==
  LET kept == {i \in DOMAIN s : ~IsSpace(s[i])} IN
  IF kept = {} THEN <<>>
  ELSE SubSeq(s, CHOOSE i \in kept : \A j \in kept : i <= j,
                 CHOOSE i \in kept : \A j \in kept : j <= i)

DigitChars == <<"0", "1", "2", "3", "4", "5", "6", "7", "8", "9">>
IsDigit(c) == \E i \in DOMAIN DigitChars : DigitChars[i] = c
DigitValue(c) == (CHOOSE i \in DOMAIN DigitChars : DigitChars[i] = c) - 1

RECURSIVE DigitsValue(_, _)
DigitsValue(s, acc) ==
  IF s = <<>> THEN acc ELSE DigitsValue(Tail(s), 10 * acc + DigitValue(Head(s)))

\* int(user_input): white space around, one sign, then digits and nothing
\* else; ok is FALSE where Python raises ValueError
int_parse(user_input) ==
  LET s == str_strip(user_input)
      signed == s # <<>> /\ Head(s) \in {"+", "-"}
      digits == IF signed THEN Tail(s) ELSE s
  IN  IF digits = <<>> \/ \E i \in DOMAIN digits : ~IsDigit(digits[i])
      THEN [ok |-> FALSE, value |-> 0]
      ELSE [ok |-> TRUE,
            value |-> IF signed /\ Head(s) = "-" THEN 0 - DigitsValue(digits, 0)
                      ELSE DigitsValue(digits, 0)]

NotLaunched == [launched |-> FALSE, spawned |-> FALSE, argv |-> <<>>]

\* Faulty variant of launch_application: any number picks the first command
launch_application_AnyNumber(user_input, isfile, runs) ==
  LET n == int_parse(user_input) IN
  IF n.ok \/ user_input \in DOMAIN ALLOWED_COMMANDS
  THEN [launched |-> TRUE, spawned |-> TRUE,
        argv |-> ALLOWED_COMMANDS[ordered_command_keys[1]]]
  ELSE NotLaunched

\* launch_application: isfile is what os.path.isfile finds for the script,
\* runs is FALSE when subprocess.run raises OSError.  spawned: a child process
\* was started; launched: the value returned.
launch_application(user_input, isfile, runs) ==
  LET n == int_parse(user_input)
      in_range == 1 <= n.value /\ n.value <= Len(ordered_command_keys)
      command_to_execute_key ==
        IF n.ok THEN ordered_command_keys[n.value] ELSE user_input
  IN  IF n.ok /\ ~in_range THEN NotLaunched
      ELSE IF ~n.ok /\ user_input \notin DOMAIN ALLOWED_COMMANDS THEN NotLaunched
      ELSE IF ~isfile \/ ~runs THEN NotLaunched
      ELSE [launched |-> TRUE, spawned |-> TRUE,
            argv |-> ALLOWED_COMMANDS[command_to_execute_key]]

ExitWords == {<<"e", "x", "i", "t">>, <<"q", "u", "i", "t">>}

\* one turn of the `while True` loop from line 116 on, for the line input()
\* returned and what strip made of it: the dispatcher afterwards
AfterInput(d, line, command_line, runs) ==
  IF Lower(command_line) \in ExitWords
  THEN [d EXCEPT !.pc = "exited", !.line = line, !.read = TRUE, !.eof = FALSE,
                 !.spawned = FALSE]
  ELSE LET r == launch_application(command_line, d.isfile, runs) IN
       [d EXCEPT !.pc = IF r.spawned THEN "child" ELSE "input",
                 !.line = line, !.read = TRUE, !.eof = FALSE,
                 !.spawned = r.spawned,
                 !.child = IF r.spawned THEN [pc |-> "main", argv |-> r.argv]
                           ELSE NoChild]

\* input() raises EOFError (lines 126-129)
AfterEOF(d) ==
  [d EXCEPT !.pc = "exited", !.line = <<>>, !.read = TRUE, !.eof = TRUE,
            !.spawned = FALSE]

\* what the user types apart from white space
Cores ==
  {<<>>, <<"e", "x", "i", "t">>, <<"E", "X", "I", "T">>, <<"E", "x", "i", "t">>,
   <<"q", "u", "i", "t">>, <<"Q", "u", "I", "t">>, <<"e", "x", "i">>,
   <<"e", "x", "i", "t", "s">>, <<"e", "x", " ", "i", "t">>,
   <<"1">>, <<"2">>, <<"0">>, <<"+", "1">>, <<"-", "1">>, <<"0", "1">>,
   <<"1", "0">>, <<"1", "1">>, <<"1", "x">>, <<"1", " ", "1">>, <<"+">>, <<"x">>,
   MindmapCommand, MindmapCommand \o <<"x">>, Tail(MindmapCommand),
   <<"P">> \o Tail(MindmapCommand)}

\* the lines the user types: white space may stand before and after
Lines ==
  {lead \o core \o trail :
     lead \in {<<>>, <<" ">>}, core \in Cores, trail \in {<<>>, <<"\t">>}}

\* argparse on sys.argv[1:] with the three options of startup_parser; what
\* it does not know goes to remaining_argv
RECURSIVE parse_known_args(_, _)
parse_known_args(argv, ns) ==
  IF argv = <<>> THEN ns
  ELSE IF Head(argv) = "--interactive"
  THEN parse_known_args(Tail(argv), [ns EXCEPT !.interactive = TRUE])
  ELSE IF Head(argv) = "--interactive-for-websocket"
  THEN parse_known_args(Tail(argv), [ns EXCEPT !.interactive_for_websocket = TRUE])
  ELSE IF Head(argv) \in {"-f", "--file"} /\ Len(argv) >= 2
  THEN parse_known_args(Tail(Tail(argv)), [ns EXCEPT !.startup_file = TRUE])
  ELSE parse_known_args(Tail(argv),
                        [ns EXCEPT !.remaining_argv = Append(@, Head(argv))])

NoArgs ==
  [interactive |-> FALSE, interactive_for_websocket |-> FALSE,
   startup_file |-> FALSE, remaining_argv |-> <<>>]

\* set(detailed_help_messages.keys()) - {"exit", "quit", "pwd", "file"}
one_shot_command_names ==
  {"new", "load", "save", "add", "list", "delete", "search", "edit", "move",
   "export", "help"}

\* the parameters of interactive_session (interactive_cli.py line 348)
interactive_session_params == {"initial_filepath_session"}

\* main: the function it calls and the keyword arguments it passes
main(argv) ==
  LET a == parse_known_args(argv, NoArgs) IN
  IF a.interactive_for_websocket
  THEN [fn |-> "interactive_session",
        kwargs |-> {"initial_filepath_session", "for_websocket"},
        startup_file |-> a.startup_file]
  ELSE IF ~a.interactive /\ a.remaining_argv # <<>>
            /\ a.remaining_argv[1] \in one_shot_command_names
  THEN [fn |-> "main_cli", kwargs |-> {}, startup_file |-> a.startup_file]
  ELSE [fn |-> "interactive_session", kwargs |-> {"initial_filepath_session"},
        startup_file |-> a.startup_file]

\* the command lines main.py is started with from a shell
Argvs ==
  {<<>>, <<"--interactive">>, <<"--interactive-for-websocket">>,
   <<"-f", "m.json">>, <<"--interactive", "-f", "m.json">>,
   <<"--interactive-for-websocket", "-f", "m.json">>,
   <<"add", "T">>, <<"bogus">>, <<"--interactive", "add">>}

\* a dispatcher started in a terminal waits at its prompt, or main.py has
\* been started from a shell
InitDispatch ==
  /\ file \in {NoFile, save_map_to_file(NewMapTree(RootId, 1))}
  /\ alt_file \in {NoFile, Garbage, save_map_to_file(NewMapTree(RootId, 2))}
  /\ file_pre = file
  /\ nodes = EmptyDict
  /\ root = None
  /\ pre = Map(EmptyDict, None)
  /\ last = Call("start", None, None, NoText, FALSE, "none", None)
  /\ has_map = FALSE
  /\ out_file = NoExport
  /\ at_alt = FALSE
  /\ moving = Idle
  /\ twin = NoTwin
  /\ conn = NoConnection
  /\ \/ \E isfile \in BOOLEAN :
          disp = [NoDispatcher EXCEPT !.pc = "input", !.isfile = isfile]
     \/ \E argv \in Argvs :
          disp = [NoDispatcher EXCEPT !.child = [pc |-> "main", argv |-> argv]]

\* only the processes move
Processes(d) ==
  /\ disp' = d
  /\ UNCHANGED <<nodes, root, last, pre, file, file_pre, has_map, out_file,
                 alt_file, at_alt, moving, twin, conn>>

\* the dispatcher reads a line at its prompt and strips it (lines 113-114)
DispatcherInput ==
  /\ disp.pc = "input"
  /\ \E line \in Lines, runs \in BOOLEAN :
       \E command_line \in {str_strip(line)} :
         Processes(AfterInput(disp, line, command_line, runs))

\* the terminal is closed
DispatcherEOF ==
  /\ disp.pc = "input"
  /\ Processes(AfterEOF(disp))

\* main.py from its first line to the call of line 52, 60 or 67: a keyword
\* the function does not have makes the call raise TypeError, which nothing
\* catches
MainCalls(d) ==
  LET call == main(d.child.argv) IN
  [d EXCEPT !.child.pc =
     IF call.fn = "main_cli" THEN "main_cli"
     ELSE IF call.kwargs \subseteq interactive_session_params
     THEN "interactive_session"
     ELSE "TypeError"]

\* the application process runs main
MainRun ==
  /\ disp.child.pc = "main"
  /\ Processes(MainCalls(disp))

\* interactive_session up to its `while True` (lines 351-376): the startup
\* file, or else the default file, is loaded when load_map_action succeeds
SessionStart ==
  /\ disp.child.pc = "interactive_session"
  /\ LET given == main(disp.child.argv).startup_file
         out == load_map_action(IF given THEN alt_file ELSE file)
     IN  /\ nodes' = (IF out.status = SUCCESS THEN out.map.nodes ELSE nodes)
         /\ root' = (IF out.status = SUCCESS THEN out.map.root ELSE root)
         /\ has_map' = (out.status = SUCCESS)
         /\ at_alt' = (out.status = SUCCESS /\ given)
         /\ pre' = Cur
         /\ last' = Call("start", None, None, NoText, FALSE, out.status, None)
         /\ disp' = [disp EXCEPT !.child.pc = "prompt"]
         /\ UNCHANGED <<file, file_pre, out_file, alt_file, moving, twin, conn>>

\* the application process ends: the session at exit or end of input, the
\* one-shot command when it is done
ChildEnds ==
  /\ disp.child.pc \in {"prompt", "main_cli"}
  /\ nodes' = EmptyDict
  /\ root' = None
  /\ has_map' = FALSE
  /\ at_alt' = FALSE
  /\ disp' = [disp EXCEPT !.child.pc = "ended"]
  /\ UNCHANGED <<last, pre, file, file_pre, out_file, alt_file, moving, twin, conn>>

\* subprocess.run returns (line 79) and the loop prompts again
DispatcherResume ==
  /\ disp.pc = "child"
  /\ disp.child.pc \in {"TypeError", "ended"}
  /\ Processes([disp EXCEPT !.pc = "input", !.child = NoChild])

NextDispatch ==
  DispatcherInput \/ DispatcherEOF \/ MainRun \/ SessionStart \/ ChildEnds
    \/ DispatcherResume

\* a process that can take a step is scheduled
SpecDispatch ==
  /\ InitDispatch /\ [][NextDispatch]_vars
  /\ WF_vars(MainRun) /\ WF_vars(SessionStart) /\ WF_vars(DispatcherResume)

\* --------------------------------------------------- the WebSocket server
\* websocket_terminal_endpoint starts the dispatcher with three pipes and
\* stream_subprocess_io runs three tasks between the pipes and the client.

\* what the client sends: text, with or without the end of the line
Messages ==
  {<<"e", "x", "i", "t", "\n">>, <<"1", "\n">>, <<"x", "\n">>, <<"1">>}

\* the connection is accepted, Popen has returned, the three tasks are
\* created; the dispatcher has written its welcome, menu and prompt
InitServer ==
  /\ file = NoFile
  /\ alt_file = NoFile
  /\ file_pre = file
  /\ nodes = EmptyDict
  /\ root = None
  /\ pre = Map(EmptyDict, None)
  /\ last = Call("start", None, None, NoText, FALSE, "none", None)
  /\ has_map = FALSE
  /\ out_file = NoExport
  /\ at_alt = FALSE
  /\ moving = Idle
  /\ twin = NoTwin
  /\ \E isfile \in BOOLEAN :
       disp = [NoDispatcher EXCEPT !.pc = "input", !.isfile = isfile]
  /\ conn = [io |-> "gather", client |-> "connected", inbox |-> <<>>,
             stdin_task |-> "receive", stdout_task |-> "readline",
             stderr_task |-> "readline", pipe_in |-> <<>>, out |-> TRUE,
             err |-> FALSE, process |-> "running", ended |-> "none"]

\* the connection and the dispatcher move, the map of no session does
Served(c, d) ==
  /\ conn' = c
  /\ disp' = d
  /\ UNCHANGED <<nodes, root, last, pre, file, file_pre, has_map, out_file,
                 alt_file, at_alt, moving, twin>>

\* the browser sends a text message
ClientSend ==
  /\ conn.client = "connected"
  /\ Len(conn.inbox) < MaxInbox
  /\ \E data \in Messages :
       Served([conn EXCEPT !.inbox = Append(@, data)], disp)

\* the browser closes the connection
ClientDisconnect ==
  /\ conn.client = "connected"
  /\ Served([conn EXCEPT !.client = "gone"], disp)

\* one turn of forward_stdin (lines 31-43): receive_text returns a message,
\* which is written to the pipe, or raises WebSocketDisconnect.  process.stdin
\* is never closed on this side, so the else of line 38 is not taken; the
\* write raises BrokenPipeError when the dispatcher has exited and waits
\* while the pipe is full.
StdinReceive ==
  /\ conn.io = "gather" /\ conn.stdin_task = "receive"
  /\ IF conn.inbox # <<>>
     THEN LET data == Head(conn.inbox) IN
          IF conn.process = "exited"
          THEN Served([conn EXCEPT !.inbox = Tail(@), !.stdin_task = "done"], disp)
          ELSE /\ Len(conn.pipe_in) + Len(data) <= MaxPipe
               /\ Served([conn EXCEPT !.inbox = Tail(@), !.pipe_in = @ \o data], disp)
     ELSE /\ conn.client = "gone"
          /\ Served([conn EXCEPT !.stdin_task = "done"], disp)

\* every process that holds the write end of stdout and stderr has exited
PipesClosed ==
  conn.process = "exited" /\ disp.child.pc \in {"none", "TypeError", "ended"}

\* one turn of forward_stream_to_ws (lines 49-60): readline returns what the
\* pipe holds, which send_text passes on unless the client is gone, or it
\* returns nothing at the end of the pipe; else it waits
StreamRead(unread, task) ==
  /\ conn.io = "gather" /\ conn[task] = "readline"
  /\ IF conn[unread]
     THEN IF conn.client = "gone"
          THEN Served([conn EXCEPT ![task] = "done"], disp)
          ELSE Served([conn EXCEPT ![unread] = FALSE], disp)
     ELSE /\ PipesClosed
          /\ Served([conn EXCEPT ![task] = "done"], disp)

\* the task of line 64
StdoutRead ==
  /\ conn.stdout_task = "readline"
  /\ StreamRead("out", "stdout_task")

\* the task of line 65
StderrRead ==
  /\ conn.stderr_task = "readline"
  /\ StreamRead("err", "stderr_task")

\* asyncio.gather returns when the three tasks are done (line 70)
GatherReturns ==
  /\ conn.io = "gather"
  /\ conn.stdin_task = "done" /\ conn.stdout_task = "done" /\ conn.stderr_task = "done"
  /\ Served([conn EXCEPT !.io = "cleanup"], disp)

\* the finally of lines 73-93: returncode is None as nothing has waited for
\* the process; terminate, and kill when the wait of five seconds times out
Cleanup ==
  /\ conn.io = "cleanup"
  /\ \E in_time \in BOOLEAN :
       Served([conn EXCEPT !.io = "returned", !.process = "exited",
                           !.ended = IF conn.process = "exited" THEN "exited"
                                     ELSE IF in_time THEN "terminate" ELSE "kill"],
              [disp EXCEPT !.pc = "exited"])

\* the position of the first end of line in s, 0 when there is none
FirstNewline(s) ==
  IF \E i \in DOMAIN s : s[i] = "\n"
  THEN CHOOSE i \in DOMAIN s : s[i] = "\n" /\ \A j \in 1..(i - 1) : s[j] # "\n"
  ELSE 0

\* input() of the dispatcher returns when the pipe holds a whole line; the
\* next prompt, or the last words, go to stdout and a refusal to stderr
ProcessReads ==
  /\ conn.process = "running" /\ disp.pc = "input"
  /\ FirstNewline(conn.pipe_in) # 0
  /\ \E n \in {FirstNewline(conn.pipe_in)}, runs \in BOOLEAN :
       \E line \in {SubSeq(conn.pipe_in, 1, n - 1)} :
         \E command_line \in {str_strip(line)} :
           \E d \in {AfterInput(disp, line, command_line, runs)} :
             Served([conn EXCEPT !.pipe_in = SubSeq(@, n + 1, Len(@)),
                                 !.out = TRUE,
                                 !.err = @ \/ d.pc = "input",
                                 !.process = IF d.pc = "exited" THEN "exited" ELSE @],
                    d)

\* the application runs main on the pipes of the dispatcher; the traceback
\* goes to stderr
ServedMainRun ==
  /\ conn.process = "running" /\ disp.child.pc = "main"
  /\ \E d \in {MainCalls(disp)} :
       Served([conn EXCEPT !.err = @ \/ d.child.pc = "TypeError"], d)

\* subprocess.run returns; the menu and the prompt go to stdout
ServedResume ==
  /\ conn.process = "running" /\ disp.pc = "child"
  /\ disp.child.pc \in {"TypeError", "ended"}
  /\ Served([conn EXCEPT !.out = TRUE], [disp EXCEPT !.pc = "input", !.child = NoChild])

NextServer ==
  ClientSend \/ ClientDisconnect \/ StdinReceive \/ StdoutRead \/ StderrRead
    \/ GatherReturns \/ Cleanup \/ ProcessReads \/ ServedMainRun \/ ServedResume

\* the steps of the coroutines of the server
ServerTasks == StdinReceive \/ StdoutRead \/ StderrRead \/ GatherReturns \/ Cleanup

\* the steps of the dispatcher and of its child
DispatcherProcess == ProcessReads \/ ServedMainRun \/ ServedResume

\* the event loop goes on while a coroutine can, and the system runs the
\* processes; what the browser does is up to the user
SpecServer ==
  /\ InitServer /\ [][NextServer]_vars
  /\ WF_vars(ServerTasks) /\ WF_vars(DispatcherProcess)

\* ------------------------------------------------- vocabulary of the claims
\* the ids in the children list of n
ChildSet(m, n) == {m.nodes[n].children_ids[i] : i \in 1..Len(m.nodes[n].children_ids)}

RECURSIVE Closure(_, _, _)
\* S together with everything reached from S along children_ids in at most k steps
Closure(m, S, k) ==
  IF k = 0 THEN S
  ELSE LET T == S \cup UNION {ChildSet(m, n) : n \in S \cap DOMAIN m.nodes} IN
       IF T = S THEN S ELSE Closure(m, T, k - 1)

\* the subtree rooted at n: n and all its descendants
Subtree(m, n) == Closure(m, {n}, Cardinality(DOMAIN m.nodes))

\* the proper descendants of n
Descendants(m, n) ==
  Closure(m, ChildSet(m, n), Cardinality(DOMAIN m.nodes))

\* how often id c occurs in all children lists of the tree together
Occurrences(m, c) ==
  LET RECURSIVE Sum(_)
      Sum(S) == IF S = {} THEN 0
                ELSE LET n == CHOOSE x \in S : TRUE
                     IN  Count(m.nodes[n].children_ids, c) + Sum(S \ {n})
  IN  Sum(DOMAIN m.nodes)

\* s without the elements equal to x, order kept
Without(s, x) == LET keep(y) == y # x IN SelectSeq(s, keep)

MoveCalled == last.op = "move"
MoveEndpointsExist ==
  /\ last.node_id \in DOMAIN pre.nodes
  /\ last.parent_id \in DOMAIN pre.nodes

\* ------------------------------------------------------------------ claims

\* C1: after any sequence of AddNode, DeleteNode, EditNode and MoveNode calls
\* on a tree created by NewMap, accepted or rejected, every node's depth lies
\* between 0 and MAX_DEPTH.
C1_DepthBounded ==
  \A n \in DOMAIN nodes : 0 <= nodes[n].depth /\ nodes[n].depth <= MAX_DEPTH

\* a move has just placed a node on the deepest level
C1_Witness ==
  /\ MoveCalled /\ last.status = SUCCESS
  /\ nodes[last.node_id].depth = MAX_DEPTH
  /\ pre.nodes[last.node_id].depth < MAX_DEPTH

\* C2: children lists and parent links agree: every id in a children list is
\* a node whose parent_id is the list's owner and it occurs exactly once in
\* all children lists together; every non-root node is in the children list
\* of its parent.
C2_ChildrenParentAgree ==
  /\ \A n \in DOMAIN nodes : \A c \in ChildSet(Cur, n) :
       /\ c \in DOMAIN nodes
       /\ nodes[c].parent_id = n
       /\ Occurrences(Cur, c) = 1
  /\ \A n \in DOMAIN nodes : n # root =>
       /\ nodes[n].parent_id \in DOMAIN nodes
       /\ InList(n, nodes[nodes[n].parent_id].children_ids)

\* a move has just taken a node from a parent that keeps other children and
\* put it under a parent that already had one
C2_Witness ==
  /\ MoveCalled /\ last.status = SUCCESS
  /\ Len(nodes[last.parent_id].children_ids) >= 2
  /\ Len(nodes[pre.nodes[last.node_id].parent_id].children_ids) >= 1

\* C3: the parent/child relation is acyclic and every node is reachable from
\* the root along children_ids.
C3_AcyclicReachable ==
  /\ \A n \in DOMAIN nodes : n \notin Descendants(Cur, n)
  /\ DOMAIN nodes = (IF root = None THEN {} ELSE Subtree(Cur, root))

\* a delete has just removed a node together with a child of it, and nodes remain
C3_Witness ==
  /\ last.op = "delete" /\ last.status = SUCCESS
  /\ pre.nodes[last.node_id].children_ids # <<>>
  /\ Cardinality(DOMAIN nodes) >= 2

\* C4: the tree is completely empty, or root is a node without parent_id and
\* the only such node.
C4_SingleRoot ==
  \/ DOMAIN nodes = {} /\ root = None
  \/ /\ root \in DOMAIN nodes
     /\ nodes[root].parent_id = None
     /\ \A n \in DOMAIN nodes : nodes[n].parent_id = None => n = root

\* the root of a tree with descendants on both levels has just been deleted
C4_Witness ==
  /\ last.op = "delete" /\ last.status = SUCCESS /\ last.node_id = pre.root
  /\ \E n \in DOMAIN pre.nodes : pre.nodes[n].depth = MAX_DEPTH
  /\ DOMAIN nodes = {}

\* C5: root has depth 0 and every other node is one level below its parent.
C5_DepthFollowsParent ==
  /\ root # None => nodes[root].depth = 0
  /\ \A n \in DOMAIN nodes : n # root =>
       /\ nodes[n].parent_id \in DOMAIN nodes
       /\ nodes[n].depth = nodes[nodes[n].parent_id].depth + 1

\* a move has just brought a node from the deepest level up under the root
C5_Witness ==
  /\ MoveCalled /\ last.status = SUCCESS
  /\ pre.nodes[last.node_id].depth = MAX_DEPTH
  /\ nodes[last.node_id].depth = 1
  /\ last.parent_id = root

\* the node a move is about, its new parent and its parent before the move
MovedId == last.node_id
NewParentId == last.parent_id
OldParentId == pre.nodes[last.node_id].parent_id

\* C6: a MoveNode that returns NOT_FOUND, INVALID_OPERATION or
\* MAX_DEPTH_REACHED leaves the tree exactly as it was: same node set and the
\* same text, parent_id, children_ids and depth for every node.
C6_RejectedMoveKeepsTree ==
  (MoveCalled /\ last.status # SUCCESS) =>
    /\ last.status \in {NOT_FOUND, INVALID_OPERATION, MAX_DEPTH_REACHED}
    /\ nodes = pre.nodes
    /\ root = pre.root

\* a move was rejected for depth after the scan had already computed a new
\* depth for the moved node, because a descendant would sink too deep
C6_Witness ==
  /\ MoveCalled /\ last.status = MAX_DEPTH_REACHED
  /\ pre.nodes[NewParentId].depth + 1 <= MAX_DEPTH
  /\ pre.nodes[MovedId].children_ids # <<>>

\* C7: a move under a proper descendant of the moved node is rejected with
\* INVALID_OPERATION; with A and B children of the root and A a leaf, moving A
\* under B succeeds, and moving B under A afterwards is such a rejected move.
C7_CycleRejected ==
  /\ (MoveCalled /\ MoveEndpointsExist /\ NewParentId \in Descendants(pre, MovedId))
       => last.status = INVALID_OPERATION
  /\ (/\ MoveCalled /\ MoveEndpointsExist
      /\ MovedId # NewParentId
      /\ pre.root # None
      /\ pre.nodes[MovedId].parent_id = pre.root
      /\ pre.nodes[NewParentId].parent_id = pre.root
      /\ pre.nodes[MovedId].children_ids = <<>>)
       => (last.status = SUCCESS /\ nodes[MovedId].parent_id = NewParentId)

\* B, a child of the root, was asked to move under its own child A and the
\* call was rejected
C7_Witness ==
  /\ MoveCalled /\ MoveEndpointsExist
  /\ pre.nodes[MovedId].parent_id = pre.root
  /\ pre.nodes[NewParentId].parent_id = MovedId
  /\ last.status = INVALID_OPERATION

\* some node of the moved subtree would end up deeper than MAX_DEPTH
WouldExceed ==
  \E s \in Subtree(pre, MovedId) :
    pre.nodes[NewParentId].depth + 1
      + (pre.nodes[s].depth - pre.nodes[MovedId].depth) > MAX_DEPTH

\* C8: for a move with both endpoints present that is not a move of the root,
\* to the current parent, under itself or under a descendant, the status is
\* MAX_DEPTH_REACHED exactly when some node of the moved subtree would get a
\* depth above MAX_DEPTH, and SUCCESS otherwise.
C8_DepthVerdict ==
  (/\ MoveCalled /\ MoveEndpointsExist
   /\ MovedId # pre.root
   /\ NewParentId # OldParentId
   /\ NewParentId # MovedId
   /\ NewParentId \notin Descendants(pre, MovedId))
    => last.status = (IF WouldExceed THEN MAX_DEPTH_REACHED ELSE SUCCESS)

\* a move was rejected although the moved node itself would have fitted: only
\* a descendant of it would have exceeded the ceiling
C8_Witness ==
  /\ MoveCalled /\ MoveEndpointsExist
  /\ last.status = MAX_DEPTH_REACHED
  /\ pre.nodes[NewParentId].depth + 1 <= MAX_DEPTH
  /\ \E s \in Descendants(pre, MovedId) :
       pre.nodes[NewParentId].depth + 1
         + (pre.nodes[s].depth - pre.nodes[MovedId].depth) > MAX_DEPTH

\* C9: after a successful move the node names its new parent, is the last
\* element of the new parent's children and occurs there once, is gone from
\* the old parent's children whose other ids keep their order, every node of
\* the moved subtree has its depth shifted by the same amount, and the node
\* set, root, texts, all other children lists and all other parent links are
\* unchanged.
C9_MoveFrame ==
  (MoveCalled /\ last.status = SUCCESS) =>
    LET kids == nodes[NewParentId].children_ids
        shift == pre.nodes[NewParentId].depth + 1 - pre.nodes[MovedId].depth
    IN  /\ nodes[MovedId].parent_id = NewParentId
        /\ Len(kids) >= 1 /\ kids[Len(kids)] = MovedId /\ Count(kids, MovedId) = 1
        /\ ~InList(MovedId, nodes[OldParentId].children_ids)
        /\ nodes[OldParentId].children_ids
             = Without(pre.nodes[OldParentId].children_ids, MovedId)
        /\ \A s \in Subtree(pre, MovedId) :
             nodes[s].depth = pre.nodes[s].depth + shift
        /\ DOMAIN nodes = DOMAIN pre.nodes
        /\ root = pre.root
        /\ \A x \in DOMAIN nodes : nodes[x].text = pre.nodes[x].text
        /\ \A x \in DOMAIN nodes \ {OldParentId, NewParentId} :
             nodes[x].children_ids = pre.nodes[x].children_ids
        /\ \A x \in DOMAIN nodes \ {MovedId} :
             nodes[x].parent_id = pre.nodes[x].parent_id

\* a node has just moved one level down, away from a parent that keeps a
\* child, to a parent that already had one
C9_Witness ==
  /\ MoveCalled /\ last.status = SUCCESS
  /\ pre.nodes[NewParentId].children_ids # <<>>
  /\ nodes[OldParentId].children_ids # <<>>
  /\ nodes[MovedId].depth = pre.nodes[MovedId].depth + 1

\* C10: adding under a parent whose depth is MAX_DEPTH is always refused and
\* changes nothing: AddNode answers MAX_DEPTH_REACHED without a node, and the
\* tree's own insert returns no node.
C10_AddAtCeilingRejected ==
  /\ (/\ last.op = "add"
      /\ last.parent_id \in DOMAIN pre.nodes
      /\ pre.nodes[last.parent_id].depth = MAX_DEPTH)
       => /\ last.status = MAX_DEPTH_REACHED
          /\ last.result = None
          /\ nodes = pre.nodes /\ root = pre.root
  /\ (/\ last.op = "insert_child"
      /\ last.parent_id \in DOMAIN pre.nodes
      /\ pre.nodes[last.parent_id].depth = MAX_DEPTH)
       => /\ last.status = "none"
          /\ last.result = None
          /\ nodes = pre.nodes /\ root = pre.root

\* root -> child -> grandchild, and AddNode under the grandchild was refused
C10_Witness ==
  /\ last.op = "add" /\ last.status = MAX_DEPTH_REACHED
  /\ last.parent_id \in DOMAIN pre.nodes
  /\ pre.nodes[last.parent_id].depth = MAX_DEPTH
  /\ pre.nodes[pre.nodes[last.parent_id].parent_id].parent_id = pre.root

\* C12: DeleteNode on the root with confirm_root_delete set returns SUCCESS
\* and leaves the tree completely empty, whatever hangs below the root.
C12_RootDeleteEmpties ==
  (last.op = "delete" /\ pre.root # None /\ last.node_id = pre.root /\ last.confirm)
    => /\ last.status = SUCCESS
       /\ DOMAIN nodes = {}
       /\ root = None

\* the confirmed delete of a root that had two children, one of them with a
\* child of its own
C12_Witness ==
  /\ last.op = "delete" /\ last.node_id = pre.root /\ last.confirm
  /\ Len(pre.nodes[pre.root].children_ids) = 2
  /\ \E n \in DOMAIN pre.nodes : pre.nodes[n].depth = MAX_DEPTH
  /\ DOMAIN nodes = {}

\* the node a successful delete removed and the parent it hung on
DeletedId == last.node_id
DeletedParent == pre.nodes[last.node_id].parent_id

\* C14: after a successful DeleteNode of a non-root node x, nodes is the old
\* nodes minus x and its descendants, the parent's children are the old list
\* without x in the old order, and root and every remaining node's text,
\* parent_id, children_ids and depth are unchanged.
C14_DeleteFrame ==
  (last.op = "delete" /\ last.status = SUCCESS /\ DeletedId # pre.root) =>
    /\ DOMAIN nodes = DOMAIN pre.nodes \ Subtree(pre, DeletedId)
    /\ nodes[DeletedParent].children_ids
         = Without(pre.nodes[DeletedParent].children_ids, DeletedId)
    /\ root = pre.root
    /\ \A n \in DOMAIN nodes :
         /\ nodes[n].text = pre.nodes[n].text
         /\ nodes[n].parent_id = pre.nodes[n].parent_id
         /\ nodes[n].depth = pre.nodes[n].depth
         /\ n # DeletedParent => nodes[n].children_ids = pre.nodes[n].children_ids

\* a node with a child of its own was deleted and its parent keeps another child
C14_Witness ==
  /\ last.op = "delete" /\ last.status = SUCCESS /\ DeletedId # pre.root
  /\ pre.nodes[DeletedId].children_ids # <<>>
  /\ nodes[DeletedParent].children_ids # <<>>

\* the parent an AddNode call resolves to: the given id, or the root
AddParent == IF last.parent_id = None THEN pre.root ELSE last.parent_id

\* C18: AddNode without a parent id adds under the root when the tree has
\* one, and returns ERROR and changes nothing when the tree has no root.
C18_AddDefaultsToRoot ==
  (last.op = "add" /\ last.parent_id = None) =>
    IF pre.root = None
    THEN last.status = ERROR /\ nodes = pre.nodes /\ root = pre.root
    ELSE /\ last.status = SUCCESS
         /\ last.result \in DOMAIN nodes \ DOMAIN pre.nodes
         /\ nodes[last.result].parent_id = pre.root
         /\ InList(last.result, nodes[pre.root].children_ids)

\* AddNode without a parent id has just added a second child under the root
C18_Witness ==
  /\ last.op = "add" /\ last.parent_id = None /\ last.status = SUCCESS
  /\ Len(nodes[pre.root].children_ids) = 2
  /\ nodes[last.result].parent_id = pre.root

\* C19: a successful AddNode under parent p adds exactly one node, with an id
\* that was not in nodes, parent_id p, depth p.depth + 1 and no children;
\* the id is appended to p's children, whose earlier elements keep their
\* places; every other node and the root are unchanged.
C19_AddFrame ==
  (last.op = "add" /\ last.status = SUCCESS) =>
    /\ last.result \notin DOMAIN pre.nodes
    /\ DOMAIN nodes = DOMAIN pre.nodes \cup {last.result}
    /\ nodes[last.result].parent_id = AddParent
    /\ nodes[last.result].depth = pre.nodes[AddParent].depth + 1
    /\ nodes[last.result].children_ids = <<>>
    /\ nodes[AddParent].children_ids
         = Append(pre.nodes[AddParent].children_ids, last.result)
    /\ nodes[AddParent].text = pre.nodes[AddParent].text
    /\ nodes[AddParent].parent_id = pre.nodes[AddParent].parent_id
    /\ nodes[AddParent].depth = pre.nodes[AddParent].depth
    /\ \A n \in DOMAIN pre.nodes \ {AddParent} : nodes[n] = pre.nodes[n]
    /\ root = pre.root

\* a node was added under a parent below the root that already had a child
C19_Witness ==
  /\ last.op = "add" /\ last.status = SUCCESS
  /\ AddParent # pre.root
  /\ pre.nodes[AddParent].children_ids # <<>>

\* C20: AddNode with a parent id, DeleteNode and EditNode with a node id, and
\* MoveNode with the node id or the new parent id that is not in nodes return
\* NOT_FOUND and leave the tree unchanged.
C20_UnknownIdNotFound ==
  LET Unknown ==
        \/ last.op = "add" /\ last.parent_id # None
             /\ last.parent_id \notin DOMAIN pre.nodes
        \/ last.op \in {"delete", "edit"} /\ last.node_id \notin DOMAIN pre.nodes
        \/ last.op = "move" /\ (\/ last.node_id \notin DOMAIN pre.nodes
                                \/ last.parent_id \notin DOMAIN pre.nodes)
  IN  Unknown => (last.status = NOT_FOUND /\ nodes = pre.nodes /\ root = pre.root)

\* MoveNode of an existing non-root node to a new parent that does not exist
C20_Witness ==
  /\ last.op = "move" /\ last.status = NOT_FOUND
  /\ last.node_id \in DOMAIN pre.nodes /\ last.node_id # pre.root
  /\ last.parent_id \notin DOMAIN pre.nodes

\* C11: for every tree that satisfies the invariants, the empty tree
\* included, from_dict(to_dict(tree)) succeeds and gives the same root id,
\* the same node ids and for each node the same text, parent_id, children_ids
\* and depth; the empty tree is written as root_id null with no node records.
C11_RoundTrip ==
  last.op = "round_trip" =>
    /\ last.status = "returned"
    /\ root = pre.root
    /\ DOMAIN nodes = DOMAIN pre.nodes
    /\ \A n \in DOMAIN nodes :
         /\ nodes[n].text = pre.nodes[n].text
         /\ nodes[n].parent_id = pre.nodes[n].parent_id
         /\ nodes[n].children_ids = pre.nodes[n].children_ids
         /\ nodes[n].depth = pre.nodes[n].depth
    /\ (pre.root = None /\ DOMAIN pre.nodes = {})
         => MM_to_dict(pre) = Doc(None, EmptyDict)

\* a tree with nodes on every level, one of them with two children, went
\* through the round trip
C11_Witness ==
  /\ last.op = "round_trip" /\ last.status = "returned"
  /\ \E n \in DOMAIN nodes : nodes[n].depth = MAX_DEPTH
  /\ Len(nodes[root].children_ids) = 2

\* the listed ways a document is malformed
RootUnresolved(d) == d.root_id # None /\ d.root_id \notin DOMAIN d.nodes
NodesWithoutRoot(d) == d.root_id = None /\ DOMAIN d.nodes # {}
LacksRequired(d) == \E k \in DOMAIN d.nodes : {"id", "text"} \ d.nodes[k].keys # {}
EmptyDocument(d) == d.root_id = None /\ DOMAIN d.nodes = {}

\* C16: from_dict fails, returning no tree and leaving nothing behind, when
\* root_id names no node record, when there are node records but no root_id,
\* or when a node record lacks 'id' or 'text'; it returns the empty tree when
\* there is neither a root_id nor a node record.
C16_DeserializeRejects ==
  last.op = "from_dict" =>
    /\ (RootUnresolved(file.doc) \/ NodesWithoutRoot(file.doc) \/ LacksRequired(file.doc))
         => (last.status = "ValueError" /\ nodes = pre.nodes /\ root = pre.root)
    /\ EmptyDocument(file.doc)
         => (last.status = "returned" /\ DOMAIN nodes = {} /\ root = None)

\* from_dict has just refused a document whose records are all complete but
\* whose root_id names none of them
C16_Witness ==
  /\ last.op = "from_dict" /\ last.status = "ValueError"
  /\ RootUnresolved(file.doc) /\ ~LacksRequired(file.doc)
  /\ DOMAIN file.doc.nodes # {}

\* C17: every tree that from_dict returns satisfies the five invariants (depth
\* within the ceiling, children lists and parent links in agreement, acyclic
\* and reachable from root, a single parentless root, depth one below the
\* parent's).
C17_LoadedTreeWellFormed ==
  (last.op = "from_dict" /\ last.status = "returned") =>
    /\ C1_DepthBounded
    /\ C2_ChildrenParentAgree
    /\ C3_AcyclicReachable
    /\ C4_SingleRoot
    /\ C5_DepthFollowsParent

\* the file exists and its content is malformed in one of the listed ways
Malformed(f) ==
  \/ f.kind = "garbage"
  \/ /\ f.kind = "doc"
     /\ RootUnresolved(f.doc) \/ NodesWithoutRoot(f.doc) \/ LacksRequired(f.doc)

\* C15: load_map_action returns NOT_FOUND only for an absent file and ERROR
\* for every existing malformed file, and neither front end goes on with a
\* fresh empty map when the file exists and is malformed.
C15_MalformedIsError ==
  /\ last.op \in {"load", "cmd_load"} =>
       /\ last.status = NOT_FOUND => file.kind = "absent"
       /\ Malformed(file) => last.status = ERROR
  /\ (last.op = "load_for_command" /\ Malformed(file)) => last.status # "fresh"

\* the root of the map stored in the file before the last command
StoredRoot == IF file_pre.kind = "doc" THEN file_pre.doc.root_id ELSE None

\* the last call left the session's map and the stored file as they were
NothingChanged == nodes = pre.nodes /\ root = pre.root /\ file = file_pre

\* C13 as amended: delete_node_action on the root with confirm_root_delete false
\* returns INVALID_OPERATION and leaves the tree unchanged; the one-shot delete
\* of the root without --yes, and the interactive delete of the root with an
\* answer that is not 'yes' in any mix of upper and lower case, leave the
\* tree and the stored file unchanged.
C13_RootNeedsConfirmation ==
  /\ (last.op = "delete" /\ last.node_id = pre.root /\ ~last.confirm)
       => (last.status = INVALID_OPERATION /\ nodes = pre.nodes /\ root = pre.root)
  /\ (last.op = "handle_delete" /\ last.node_id = StoredRoot /\ ~last.confirm)
       => NothingChanged
  /\ (last.op = "cmd_delete" /\ last.node_id = pre.root
        /\ Lower(last.result) # <<"y", "e", "s">>)
       => NothingChanged

\* the interactive delete of a root that has children was answered "no"
C13_Witness ==
  /\ last.op = "cmd_delete" /\ last.node_id = pre.root
  /\ last.result = <<"n", "o">>
  /\ pre.nodes[pre.root].children_ids # <<>>
  /\ last.status = "cancelled"

\* C13 as stated: the same, for every interactive answer other than the three
\* letters 'yes'.
C13_AnyAnswerButYes ==
  /\ (last.op = "delete" /\ last.node_id = pre.root /\ ~last.confirm)
       => (last.status = INVALID_OPERATION /\ nodes = pre.nodes /\ root = pre.root)
  /\ (last.op = "handle_delete" /\ last.node_id = StoredRoot /\ ~last.confirm)
       => NothingChanged
  /\ (last.op = "cmd_delete" /\ last.node_id = pre.root
        /\ last.result # <<"y", "e", "s">>)
       => NothingChanged

\* C21: a MoveNode with both endpoints present returns INVALID_OPERATION, and
\* so never MAX_DEPTH_REACHED, when the node to move is the root, when the new
\* parent is the node's current parent, and when the new parent is the node
\* itself, whatever the depth check would say.
C21_RejectionsBeforeDepth ==
  (/\ MoveCalled /\ MoveEndpointsExist
   /\ \/ MovedId = pre.root
      \/ NewParentId = OldParentId
      \/ NewParentId = MovedId)
    => last.status = INVALID_OPERATION

\* a node on the deepest level was asked to move under itself, which the
\* depth check alone would have refused
C21_Witness ==
  /\ MoveCalled /\ MoveEndpointsExist
  /\ NewParentId = MovedId /\ MovedId # pre.root
  /\ pre.nodes[MovedId].depth = MAX_DEPTH
  /\ last.status = INVALID_OPERATION

\* C22: EditNode on an existing node returns SUCCESS and the node's previous
\* text, sets the text to new_text and leaves the node set, the root and every
\* node's parent_id, children_ids and depth, and every other node's text, as
\* they were.
C22_EditFrame ==
  (last.op = "edit" /\ last.node_id \in DOMAIN pre.nodes) =>
    /\ last.status = SUCCESS
    /\ last.result = pre.nodes[last.node_id].text
    /\ root = pre.root
    /\ DOMAIN nodes = DOMAIN pre.nodes
    /\ nodes[last.node_id].text = last.text
    /\ \A n \in DOMAIN nodes :
         /\ nodes[n].parent_id = pre.nodes[n].parent_id
         /\ nodes[n].children_ids = pre.nodes[n].children_ids
         /\ nodes[n].depth = pre.nodes[n].depth
         /\ n # last.node_id => nodes[n].text = pre.nodes[n].text

\* a node with a parent and a child has just been given a different text
C22_Witness ==
  /\ last.op = "edit" /\ last.status = SUCCESS
  /\ last.text # pre.nodes[last.node_id].text
  /\ pre.nodes[last.node_id].parent_id # None
  /\ pre.nodes[last.node_id].children_ids # <<>>

\* the text of node n of the tree before the call has the search text in it
\* at some offset, letters compared without regard to case
MatchesIgnoringCase(n, q) ==
  LET t == TextOf(pre.nodes[n].text) IN
  \E off \in 0..(Len(t) - Len(q)) :
    \A k \in 1..Len(q) : LowerChar(t[off + k]) = LowerChar(q[k])

\* p leads from the root down to n, parent by parent
IsRootPath(p, n) ==
  /\ p.has
  /\ Len(p.path) = pre.nodes[n].depth + 1
  /\ p.path[1] = pre.root
  /\ p.path[Len(p.path)] = n
  /\ \A k \in 1..(Len(p.path) - 1) :
       /\ p.path[k + 1] \in DOMAIN pre.nodes
       /\ pre.nodes[p.path[k + 1]].parent_id = p.path[k]

\* C23: SearchNodes returns SUCCESS with exactly the nodes whose text contains
\* the search text case-insensitively, each once, each with a path from the
\* root to it of length depth+1 in which every element is the parent of the
\* next; with no match the list is empty; get_node_path of an unknown id
\* returns nothing.
C23_SearchResults ==
  /\ last.op = "search" =>
       /\ last.status = SUCCESS
       /\ {last.result[i].node : i \in 1..Len(last.result)}
            = {n \in DOMAIN pre.nodes : MatchesIgnoringCase(n, last.text)}
       /\ \A i, j \in 1..Len(last.result) :
            last.result[i].node = last.result[j].node => i = j
       /\ \A i \in 1..Len(last.result) :
            IsRootPath(last.result[i].path, last.result[i].node)
       /\ nodes = pre.nodes /\ root = pre.root
  /\ (last.op = "path" /\ last.node_id \notin DOMAIN pre.nodes) => ~last.result.has

\* a search in other letter case than the texts found two nodes but not all,
\* one of them on the deepest level
C23_Witness ==
  /\ last.op = "search" /\ last.text = <<"A">>
  /\ Len(last.result) = 2
  /\ Cardinality(DOMAIN pre.nodes) > 2
  /\ \E i \in 1..2 : pre.nodes[last.result[i].node].depth = MAX_DEPTH

\* the lines of the last export, returned or written
ExportedLines == IF last.text = <<>> THEN last.result.lines ELSE out_file.content

\* where x stands in the sequence s
PosIn(s, x) == CHOOSE i \in 1..Len(s) : s[i] = x

\* the nodes of the tree before the call in depth-first pre-order: the root
\* first, the first child right after its parent, and each further child right
\* after the whole subtree of the child before it
PreOrder ==
  LET D == DOMAIN pre.nodes
      n == Cardinality(D)
  IN  CHOOSE s \in [1..n -> D] :
        /\ \A i, j \in 1..n : s[i] = s[j] => i = j
        /\ s[1] = pre.root
        /\ \A x \in D :
             LET kids == pre.nodes[x].children_ids IN
             /\ kids # <<>> => PosIn(s, kids[1]) = PosIn(s, x) + 1
             /\ \A k \in 1..(Len(kids) - 1) :
                  PosIn(s, kids[k + 1])
                    = PosIn(s, kids[k]) + Cardinality(Subtree(pre, kids[k]))

\* x is the last entry of its parent's children list
IsLastChild(x) ==
  LET kids == pre.nodes[pre.nodes[x].parent_id].children_ids
  IN  kids[Len(kids)] = x

\* the indent of the line of x: one piece per ancestor below the root, four
\* spaces under a last child and a continuation bar under any other
RECURSIVE IndentOf(_)
IndentOf(x) ==
  LET p == pre.nodes[x].parent_id IN
  IF p = pre.root THEN <<>>
  ELSE IndentOf(p) \o <<IF IsLastChild(p) THEN Blank ELSE Bar>>

ExpectedLine(x) ==
  IF x = pre.root THEN TextOf(pre.nodes[x].text) \o <<RootMark>>
  ELSE IndentOf(x) \o <<IF IsLastChild(x) THEN Corner ELSE Tee>>
         \o TextOf(pre.nodes[x].text)

\* the tree is a root with children A and B, in this order, and A1 under A
ScenarioShape ==
  /\ pre.root # None
  /\ Cardinality(DOMAIN pre.nodes) = 4
  /\ Len(pre.nodes[pre.root].children_ids) = 2
  /\ Len(pre.nodes[pre.nodes[pre.root].children_ids[1]].children_ids) = 1

\* C24: the export of a non-empty tree has one line per node, in depth-first
\* pre-order along children_ids; the first line is the root text with the
\* root mark; a last child has the corner connector and puts four spaces into
\* the indent of its descendants, any other child has the tee connector and
\* puts the continuation bar; root R with children A (holding A1) and B gives
\* the four lines R [ROOT], tee A, bar corner A1, corner B.
C24_ExportRendering ==
  (last.op = "export" /\ pre.root # None) =>
    /\ Len(ExportedLines) = Cardinality(DOMAIN pre.nodes)
    /\ \A i \in 1..Len(ExportedLines) : ExportedLines[i] = ExpectedLine(PreOrder[i])
    /\ ScenarioShape =>
         LET R == pre.root
             A == pre.nodes[R].children_ids[1]
             B == pre.nodes[R].children_ids[2]
             A1 == pre.nodes[A].children_ids[1]
             T(x) == TextOf(pre.nodes[x].text)
         IN  ExportedLines = << T(R) \o <<" [ROOT]">>,
                                <<"|-- ">> \o T(A),
                                <<"|   ", "+-- ">> \o T(A1),
                                <<"+-- ">> \o T(B) >>

\* the tree of the scenario has just been exported
C24_Witness ==
  /\ last.op = "export" /\ ScenarioShape
  /\ Len(ExportedLines) = 4

\* the rendering of the tree before the call
Rendering == [i \in 1..Cardinality(DOMAIN pre.nodes) |-> ExpectedLine(PreOrder[i])]

C28_StatusAlways ==
  last.op \in {"add", "delete", "edit", "move", "search", "export"}
    => last.status \in CommandStatus

\* a delete of an unknown id on a tree of full depth has just been answered
\* with a status
C28_Witness ==
  /\ last.op = "delete" /\ last.status = NOT_FOUND
  /\ last.node_id \notin DOMAIN pre.nodes
  /\ \E n \in DOMAIN pre.nodes : pre.nodes[n].depth = MAX_DEPTH

\* C27: create_root on a map whose root is set raises and leaves root and nodes
\* as they were; on an empty map it makes a node of depth 0 without parent or
\* children that carries the given text, which becomes the root and the only
\* entry of nodes.
C27_CreateRoot ==
  last.op = "create_root" =>
    IF pre.root # None
    THEN last.status = "ValueError" /\ Cur = pre
    ELSE /\ last.status = "node"
         /\ root # None /\ root = last.result
         /\ DOMAIN nodes = {root}
         /\ nodes[root] = [text |-> last.text, parent_id |-> None,
                           children_ids |-> <<>>, depth |-> 0]

\* create_root was refused on a map of several nodes
C27_Witness ==
  /\ last.op = "create_root" /\ last.status = "ValueError"
  /\ Cardinality(DOMAIN nodes) >= 3 /\ Cur = pre

\* create_root has installed a root on a map emptied by a confirmed delete
C27_WitnessEmpty ==
  /\ last.op = "create_root" /\ last.status = "node"
  /\ pre.root = None /\ DOMAIN nodes = {root}

\* a map that holds one node, its root, with the given title, at depth 0,
\* without parent and without children
FreshTree(m, title) ==
  /\ m.root # None
  /\ DOMAIN m.nodes = {m.root}
  /\ m.nodes[m.root] = [text |-> title, parent_id |-> None, children_ids |-> <<>>,
                         depth |-> 0]

\* C26 as the spec states it: when the target exists and force is unset, NewMap
\* returns ALREADY_EXISTS without a tree and the file is untouched; in every
\* other case it returns a fresh one-node tree and the file holds its
\* serialization.
C26_NewMapAlwaysStores ==
  last.op = "cmd_new" =>
    LET r == last.result IN
    IF r.existed /\ ~last.confirm
    THEN last.status = ALREADY_EXISTS /\ ~r.has /\ At(r.path) = r.before
    ELSE /\ last.status = SUCCESS
         /\ r.has /\ FreshTree(r.map, last.text)
         /\ At(r.path) = save_map_to_file(r.map)

\* C26, amended: when the target exists and force is unset, NewMap returns
\* ALREADY_EXISTS without a tree and the file is untouched; otherwise it makes
\* a fresh one-node tree, and when the target can be written it returns
\* SUCCESS and the file holds the tree's serialization, while a target that
\* cannot be written (a directory) gives ERROR with the tree and is left as
\* it was.
C26_NewMap ==
  last.op = "cmd_new" =>
    LET r == last.result IN
    IF r.existed /\ ~last.confirm
    THEN last.status = ALREADY_EXISTS /\ ~r.has /\ At(r.path) = r.before
    ELSE /\ r.has /\ FreshTree(r.map, last.text)
         /\ IF r.writable
            THEN last.status = SUCCESS /\ At(r.path) = save_map_to_file(r.map)
            ELSE last.status = ERROR /\ At(r.path) = r.before

\* a forced new has replaced a stored map of several nodes
C26_Witness ==
  /\ last.op = "cmd_new" /\ last.status = SUCCESS
  /\ last.confirm /\ last.result.existed
  /\ Cardinality(DOMAIN pre.nodes) >= 2
  /\ last.result.path = current_filepath
  /\ At(current_filepath) = save_map_to_file(Cur)

\* the commands of the session that change the map
SessionChanges == {"cmd_new", "cmd_add", "cmd_delete", "cmd_edit", "cmd_move"}

\* the one-shot handlers that change the map
OneShotChanges == {"handle_add", "handle_delete", "handle_edit", "handle_move"}

\* after a one-shot handler's SUCCESS the default path holds a serialized map
\* that shows the change: the added node under its parent, the deleted node
\* gone, the new text, the new parent
OneShotSaved ==
  last.op \in OneShotChanges /\ last.status = SUCCESS =>
    /\ file.kind = "doc"
    /\ MM_from_dict(file.doc).ok
    /\ LET m == MM_from_dict(file.doc).map IN
       /\ file = save_map_to_file(m)
       /\ last.op = "handle_add" =>
            /\ last.node_id \in DOMAIN m.nodes
            /\ m.nodes[last.node_id].text = last.text
            /\ m.nodes[last.node_id].parent_id =
                 (IF last.parent_id = None THEN m.root ELSE last.parent_id)
       /\ last.op = "handle_delete" => last.node_id \notin DOMAIN m.nodes
       /\ last.op = "handle_edit" =>
            /\ last.node_id \in DOMAIN m.nodes
            /\ m.nodes[last.node_id].text = last.text
       /\ last.op = "handle_move" =>
            /\ last.node_id \in DOMAIN m.nodes
            /\ m.nodes[last.node_id].parent_id = last.parent_id

\* C29 as the spec states it: whenever the session holds a map, the file at
\* its current path is exactly the serialization of that map, and a one-shot
\* handler has saved the changed map after a SUCCESS.
C29_FileIsSerialization ==
  /\ has_map => At(current_filepath) = save_map_to_file(Cur)
  /\ OneShotSaved

\* C29, amended: whenever the session holds a map, the file at its current
\* path is a document that loads as exactly that map; after new and after
\* each add, delete, edit or move that returned SUCCESS the file is exactly
\* the map's serialization; and a one-shot handler has saved the changed map
\* after a SUCCESS.  (After load alone the file is what was read, which need
\* not be what the program would write.)
C29_Persisted ==
  /\ has_map =>
       /\ load_map_from_file(At(current_filepath)).has
       /\ load_map_from_file(At(current_filepath)).map = Cur
       /\ last.op \in SessionChanges /\ last.status = SUCCESS =>
            At(current_filepath) = save_map_to_file(Cur)
  /\ OneShotSaved

\* the session, working at the other path, has moved a node and the other
\* path holds the map while the default path holds a different one
C29_Witness ==
  /\ has_map /\ at_alt
  /\ last.op = "cmd_move" /\ last.status = SUCCESS
  /\ alt_file = save_map_to_file(Cur)
  /\ file.kind = "doc" /\ file # alt_file
  /\ Cur # pre

\* a one-shot move has been saved
C29_WitnessOneShot ==
  /\ last.op = "handle_move" /\ last.status = SUCCESS
  /\ file # file_pre /\ OneShotSaved

\* C30: with every write of a move's commit taken as a step of its own, no
\* state, the ones between two writes included, has a node deeper than
\* MAX_DEPTH; the map differs from the one the move was called on only if
\* both endpoints exist and no node of the moved subtree would exceed
\* MAX_DEPTH; and the writes together are the move: when the call returns
\* SUCCESS the map is the one move_node_action gives in one piece.
C30_CommitKeepsCeiling ==
  /\ \A n \in DOMAIN nodes : nodes[n].depth <= MAX_DEPTH
  /\ (MoveCalled /\ (Cur # pre \/ moving # Idle)) =>
       MoveEndpointsExist /\ ~WouldExceed
  /\ (MoveCalled /\ last.status = SUCCESS) =>
       Cur = move_node_action(pre, MovedId, NewParentId).map

\* between two writes of a move: the node already hangs under its new parent
\* and still has the depth it had under the old one
C30_Witness ==
  /\ MoveCalled /\ moving.pc = "depths" /\ moving.todo # <<>>
  /\ nodes[MovedId].parent_id = NewParentId
  /\ InList(MovedId, nodes[NewParentId].children_ids)
  /\ nodes[MovedId].depth # nodes[NewParentId].depth + 1

\* C31: a one-shot add without parent id on a path that holds no file succeeds:
\* the command returns SUCCESS and the path then holds a map with the node.
C31_AddOnMissingFile ==
  (/\ last.op = "handle_add" /\ last.parent_id = None
   /\ file_pre.kind = "absent") =>
    /\ last.status = SUCCESS
    /\ file.kind = "doc"
    /\ DOMAIN file.doc.nodes # {}

\* the commands of either front end that add, delete, edit or move
Mutating ==
  {"cmd_add", "cmd_delete", "cmd_edit", "cmd_move",
   "handle_add", "handle_delete", "handle_edit", "handle_move"}

\* C36: a step in which an add, delete, edit or move command of either front
\* end ends with a status other than SUCCESS leaves what the two paths hold
\* exactly as it was.
C36_RejectedNeverWrites ==
  [][(last'.op \in Mutating /\ last'.status # SUCCESS) =>
       (file' = file /\ alt_file' = alt_file)]_vars

\* the session, working at the other path on a map of three nodes, has had a
\* move refused
C36_Witness ==
  /\ has_map /\ at_alt
  /\ last.op = "cmd_move" /\ last.status = INVALID_OPERATION
  /\ Cardinality(DOMAIN nodes) = 3
  /\ alt_file = save_map_to_file(Cur) /\ file # alt_file

\* the map has neither root nor nodes
EmptyTree(m) == m.root = None /\ DOMAIN m.nodes = {}

\* C39: on a map whose root has been deleted, every add (with or without
\* parent id), delete, edit and move returns ERROR or NOT_FOUND, and after any
\* call other than the creation of a root the map is still empty.
C39_EmptyStaysEmpty ==
  EmptyTree(pre) =>
    /\ last.op \in {"add", "delete", "edit", "move"} =>
         last.status \in {ERROR, NOT_FOUND}
    /\ last.op # "create_root" => EmptyTree(Cur)

\* an add that names a parent was made on the emptied map and found nothing
C39_Witness ==
  /\ EmptyTree(pre) /\ EmptyTree(Cur)
  /\ last.op = "add" /\ last.parent_id # None /\ last.status = NOT_FOUND

\* C38: once the second map has been made by from_dict(to_dict(t)), an add, a
\* delete or a move on one of the two maps leaves the other map as it was:
\* every node's children_ids, parent_id, depth and text.
C38_TwinsShareNothing ==
  [][(twin.made /\ last'.op \in {"add", "delete", "move"}) =>
       /\ last'.result = "t" => twin'.map = twin.map
       /\ last'.result = "u" => (nodes' = nodes /\ root' = root)]_vars

\* C37: on every map that from_dict returns, whatever its parent_id and
\* children_ids links, a loop that has started comes to its end: the parent
\* walk of get_node_path and the ancestor walk of move_node_action return.
C37_EveryWalkEnds == (moving # Idle) ~> (moving = Idle)

\* the stripped line names an application: it is a key of ALLOWED_COMMANDS or
\* an integer from 1 to the number of keys
NamesApplication(s) ==
  \/ s \in DOMAIN ALLOWED_COMMANDS
  \/ int_parse(s).ok /\ int_parse(s).value \in 1..Len(ordered_command_keys)

\* the stripped line is exit or quit in any case
AsksToLeave(s) == Lower(s) \in ExitWords

\* C35: the dispatcher has started a child only for a stripped line that is a
\* key of ALLOWED_COMMANDS or an integer from 1 to the number of keys; after
\* any other line no child was started and the dispatcher is at its prompt;
\* after exit or quit in any case, and after end of input, the loop has ended
\* and no child was started.
C35_SpawnsOnlyAllowed ==
  disp.read =>
    LET s == str_strip(disp.line) IN
    /\ disp.spawned => (~disp.eof /\ NamesApplication(s) /\ ~AsksToLeave(s))
    /\ (~disp.eof /\ ~NamesApplication(s) /\ ~AsksToLeave(s)) =>
         (~disp.spawned /\ disp.pc = "input")
    /\ (disp.eof \/ AsksToLeave(s)) => (~disp.spawned /\ disp.pc = "exited")

\* the number 01 between white space has started the application
C35_Witness ==
  /\ disp.read /\ disp.spawned /\ disp.pc = "child"
  /\ disp.line = <<" ", "0", "1", "\t">>
  /\ disp.child.argv = <<"--interactive-for-websocket">>

\* C34: main.py started with --interactive-for-websocket comes to the prompt
\* of the interactive session.
C34_WebsocketFlagReachesPrompt ==
  (/\ disp.child.pc = "main"
   /\ parse_known_args(disp.child.argv, NoArgs).interactive_for_websocket)
    ~> (disp.child.pc = "prompt")

\* C32: once the client has disconnected while the dispatcher runs and waits
\* for input, stream_subprocess_io comes to the end of its cleanup and the
\* dispatcher process has been ended.
C32_DisconnectEndsSubprocess ==
  (conn.client = "gone" /\ conn.process = "running" /\ disp.pc = "input")
    ~> (conn.io = "returned" /\ conn.process = "exited")

\* C33: once the dispatcher process has exited, stream_subprocess_io returns,
\* whatever the client does or does not do.
C33_ExitEndsStreaming ==
  (conn.process = "exited") ~> (conn.io = "returned")

====
